---- MODULE Spec2Model ----
(***************************************************************************)
(* A model of xraph/confy: the merge engine (internal/merge.go) and the    *)
(* key-path store, accessors and change notification of confy.go.          *)
(*                                                                         *)
(* Go maps and slices are reference values, so the model keeps an explicit *)
(* heap: a map[string]any or a []any is a heap node, and a value of type   *)
(* `any` is nil, a scalar, or a reference to a node.  Sharing, copying and *)
(* cycles are then visible in the state.                                   *)
(***************************************************************************)
EXTENDS Integers, Sequences, FiniteSets, TLC

VARIABLES
    heap,        \* Go heap: address -> map node / slice node / free
    mExisting,   \* merge harness: the `existing` argument (NIL or a map ref)
    mNew,        \* merge harness: the `new` argument
    mResult,     \* merge harness: what DeepMerge returned
    mSnap,       \* merge harness: abstract values of the three trees when DeepMerge returned
    mTouched,    \* merge harness: which tree the caller wrote into afterwards
    mpc,         \* merge harness: "start" | "merged"
    accs,        \* the accessors (ConfyImpl objects) created so far, by id
    nextCb,      \* callbacks registered so far (a callback is known by its number)
    last,        \* the last operation called: its arguments, its result (which the caller
                 \* still holds) and the goroutines it started
    nops,        \* operations called so far
    crashed,     \* the process died of a stack overflow
    th,          \* concurrent callers: where each one is in the call it makes
    mu,          \* c.mu: the writer holding it (0 = none) and the readers holding it
    gos,         \* goroutines started by `go callback(key, value)`, run or not yet
    sets,        \* the Set calls that have returned, with the callbacks registered then
    bLive,       \* binding: the value at the path bound, as a tree without addresses
    bDefault,    \* binding: the default the caller passes (none, a tree, or a record)
    bTarget,     \* binding: the record bound into
    bErr,        \* binding: BindWithDefault returned an error
    bpc,         \* binding: "start" | "bound"
    bCall,       \* binding: the call made, its options and target, and whether it panicked
    cData,       \* typed getters: c.data of the accessor read
    cCall        \* typed getters: the last call, its arguments and what it returned

mergeVars == <<mExisting, mNew, mResult, mSnap, mTouched, mpc>>
storeVars == <<accs, nextCb, last, nops, crashed>>
concVars == <<th, mu, gos, sets>>
bindVars == <<bLive, bDefault, bTarget, bErr, bpc, bCall>>
convVars == <<cData, cCall>>
vars == <<heap, mergeVars, storeVars, concVars, bindVars, convVars>>

-----------------------------------------------------------------------------
(* Bounds *)

\* nesting depth of the trees the inputs are drawn from (1 = flat tree)
MaxDepth == 2
\* operations called on the accessors in one run
MaxOps == 3
\* accessors alive in one run (the first one, and those Sub and Clone return)
MaxAccs == 2
\* callbacks registered in one run
MaxCallbacks == 2
\* concurrent callers
MaxThreads == 2
\* calls each concurrent caller makes
MaxCalls == 2

-----------------------------------------------------------------------------
(* Values and heap nodes *)

Keys == {"a", "b"}
\* the order in which a `range` over a map is unrolled; Go's order is
\* unspecified, the loops modelled here do not depend on it
KeySeq == <<"a", "b">>

NIL == [t |-> "nil", v |-> 0]
\* marks a key that is not in a map (v[k] then yields nil, `exists` is false)
ABSENT == [t |-> "absent", v |-> 0]
IntV(n) == [t |-> "int", v |-> n]
Ref(a) == [t |-> "ref", v |-> a]

EmptyM == [k \in Keys |-> ABSENT]
FREE == [kind |-> "free", m |-> EmptyM, s |-> <<>>]
MapNode(m) == [kind |-> "map", m |-> m, s |-> <<>>]
SeqNode(s) == [kind |-> "seq", m |-> EmptyM, s |-> s]

\* heap large enough for the two inputs of a merge, its result and the
\* intermediate copies a nested merge drops on the way
HeapSize == 8 * (1 + 2 * MaxDepth)
Addr == 1..HeapSize
EmptyHeap == [a \in Addr |-> FREE]

\* the type assertion v.(map[string]any)
IsMap(h, v) == v.t = "ref" /\ h[v.v].kind = "map"
\* the type assertion v.([]any)
IsSlice(h, v) == v.t = "ref" /\ h[v.v].kind = "seq"

\* make(map[string]any) / make([]any, n): the lowest free address
Alloc(h) == CHOOSE a \in Addr : h[a].kind = "free" /\ \A b \in 1..(a - 1) : h[b].kind # "free"
FreeCount(h) == Cardinality({a \in Addr : h[a].kind = "free"})

\* m[k] in Go: nil when the key is missing
Index(h, a, k) == IF h[a].m[k] = ABSENT THEN NIL ELSE h[a].m[k]

\* references held directly by node a
Succ(h, a) ==
    {h[a].m[k].v : k \in {x \in Keys : h[a].m[x].t = "ref"}}
        \cup {h[a].s[i].v : i \in {j \in 1..Len(h[a].s) : h[a].s[j].t = "ref"}}

RECURSIVE ReachFrom(_, _, _)
ReachFrom(h, frontier, seen) ==
    IF frontier = {} THEN seen
    ELSE LET next == UNION {Succ(h, a) : a \in frontier} \ (seen \cup frontier)
         IN ReachFrom(h, next, seen \cup frontier)

\* every node reachable from value v
Reach(h, v) == IF v.t = "ref" THEN ReachFrom(h, {v.v}, {}) ELSE {}

\* the garbage collector: nodes no root reaches are free again
Collect(h, roots) ==
    LET live == UNION {Reach(h, r) : r \in roots}
    IN [a \in Addr |-> IF a \in live THEN h[a] ELSE FREE]

\* no node under v reaches itself
Acyclic(h, v) == \A a \in Reach(h, v) : a \notin ReachFrom(h, Succ(h, a), {})

\* the tree a value denotes, without addresses (defined on acyclic values)
RECURSIVE Abs(_, _)
Abs(h, v) ==
    IF v.t # "ref" THEN v
    ELSE IF h[v.v].kind = "map"
         THEN [t |-> "tree", v |-> [k \in Keys |-> Abs(h, h[v.v].m[k])]]
         ELSE [t |-> "seq", v |-> [i \in 1..Len(h[v.v].s) |-> Abs(h, h[v.v].s[i])]]

-----------------------------------------------------------------------------
(* internal/merge.go *)

RECURSIVE DeepCopy(_, _), DeepCopyValue(_, _), deepCopySlice(_, _),
          copyEntries(_, _, _, _), copyItems(_, _, _, _),
          DeepMerge(_, _, _), mergeValues(_, _, _), deepMergeLoop(_, _, _, _)

\* the loop of DeepCopy: result[key] = DeepCopyValue(value)
copyEntries(h, src, dst, ks) ==
    IF ks = <<>> THEN h
    ELSE LET k == Head(ks)
         IN IF h[src].m[k] = ABSENT THEN copyEntries(h, src, dst, Tail(ks))
            ELSE LET r == DeepCopyValue(h, h[src].m[k])
                 IN copyEntries([r.h EXCEPT ![dst].m[k] = r.v], src, dst, Tail(ks))

\* DeepCopy(src map[string]any): nil for nil, else a fresh map of copied values
DeepCopy(h, src) ==
    IF src = NIL THEN [h |-> h, v |-> NIL]
    ELSE LET dst == Alloc(h)
             h1 == [h EXCEPT ![dst] = MapNode(EmptyM)]
         IN [h |-> copyEntries(h1, src.v, dst, KeySeq), v |-> Ref(dst)]

\* the loop of deepCopySlice: result[i] = DeepCopyValue(item)
copyItems(h, src, dst, i) ==
    IF i > Len(h[src].s) THEN h
    ELSE LET r == DeepCopyValue(h, h[src].s[i])
         IN copyItems([r.h EXCEPT ![dst].s[i] = r.v], src, dst, i + 1)

deepCopySlice(h, src) ==
    LET dst == Alloc(h)
        h1 == [h EXCEPT ![dst] = SeqNode([i \in 1..Len(h[src.v].s) |-> NIL])]
    IN [h |-> copyItems(h1, src.v, dst, 1), v |-> Ref(dst)]

\* a plausible slip: hand the value back without copying it
DeepCopyValue_Alias(h, value) == [h |-> h, v |-> value]

DeepCopyValue(h, value) ==
    IF value = NIL THEN [h |-> h, v |-> NIL]
    ELSE IF IsMap(h, value) THEN DeepCopy(h, value)
    ELSE IF IsSlice(h, value) THEN deepCopySlice(h, value)
    ELSE [h |-> h, v |-> value]

\* a plausible slip: an incoming nil keeps the existing value
mergeValues_NilKeeps(h, existing, new) ==
    IF new = NIL THEN [h |-> h, v |-> existing]
    ELSE IF existing = NIL THEN DeepCopyValue(h, new)
    ELSE IF IsMap(h, existing) /\ IsMap(h, new) THEN DeepMerge(h, existing, new)
    ELSE DeepCopyValue(h, new)

mergeValues(h, existing, new) ==
    IF new = NIL THEN [h |-> h, v |-> NIL]
    ELSE IF existing = NIL THEN DeepCopyValue(h, new)
    ELSE IF IsMap(h, existing) /\ IsMap(h, new) THEN DeepMerge(h, existing, new)
    ELSE DeepCopyValue(h, new)

\* the loop of DeepMerge over the keys of `new`, writing into `result`
deepMergeLoop(h, result, new, ks) ==
    IF ks = <<>> THEN h
    ELSE LET k == Head(ks)
             newValue == h[new].m[k]
         IN IF newValue = ABSENT THEN deepMergeLoop(h, result, new, Tail(ks))
            ELSE LET r == IF h[result].m[k] # ABSENT
                          THEN mergeValues(h, h[result].m[k], newValue)
                          ELSE DeepCopyValue(h, newValue)
                 IN deepMergeLoop([r.h EXCEPT ![result].m[k] = r.v], result, new, Tail(ks))

DeepMerge(h, existing, new) ==
    IF existing = NIL THEN DeepCopy(h, new)
    ELSE IF new = NIL THEN DeepCopy(h, existing)
    ELSE LET r == DeepCopy(h, existing)
         IN [h |-> deepMergeLoop(r.h, r.v.v, new.v, KeySeq), v |-> r.v]

\* the loop of MergeInPlace over the keys of `new`, writing into `existing`
RECURSIVE mergeInPlaceLoop(_, _, _, _)
mergeInPlaceLoop(h, existing, new, ks) ==
    IF ks = <<>> THEN h
    ELSE LET k == Head(ks)
             newValue == h[new].m[k]
         IN IF newValue = ABSENT THEN mergeInPlaceLoop(h, existing, new, Tail(ks))
            ELSE LET r == IF h[existing].m[k] # ABSENT
                          THEN mergeValues(h, h[existing].m[k], newValue)
                          ELSE DeepCopyValue(h, newValue)
                 IN mergeInPlaceLoop([r.h EXCEPT ![existing].m[k] = r.v], existing, new, Tail(ks))

\* a plausible slip: the entries of `new` are assigned as they are
MergeInPlace_Assigns(h, existing, new) ==
    IF existing = NIL \/ new = NIL THEN h
    ELSE [h EXCEPT ![existing.v].m =
             [k \in Keys |-> IF h[new.v].m[k] = ABSENT THEN @[k] ELSE h[new.v].m[k]]]

\* MergeInPlace(existing, new): the heap after the call
MergeInPlace(h, existing, new) ==
    IF existing = NIL \/ new = NIL THEN h
    ELSE mergeInPlaceLoop(h, existing.v, new.v, KeySeq)

-----------------------------------------------------------------------------
(* Building input trees on the heap (a caller's map and slice literals) *)

ATree(f) == [t |-> "tree", v |-> f]
ASeq(s) == [t |-> "seq", v |-> s]

RECURSIVE Load(_, _), loadEntries(_, _, _, _), loadItems(_, _, _, _)

loadEntries(h, x, dst, ks) ==
    IF ks = <<>> THEN h
    ELSE LET k == Head(ks)
         IN IF x.v[k] = ABSENT THEN loadEntries(h, x, dst, Tail(ks))
            ELSE LET r == Load(h, x.v[k])
                 IN loadEntries([r.h EXCEPT ![dst].m[k] = r.v], x, dst, Tail(ks))

loadItems(h, x, dst, i) ==
    IF i > Len(x.v) THEN h
    ELSE LET r == Load(h, x.v[i])
         IN loadItems([r.h EXCEPT ![dst].s[i] = r.v], x, dst, i + 1)

\* allocate the literal x; yields the new heap and the value denoting x
Load(h, x) ==
    IF x.t = "tree"
    THEN LET dst == Alloc(h)
         IN [h |-> loadEntries([h EXCEPT ![dst] = MapNode(EmptyM)], x, dst, KeySeq),
             v |-> Ref(dst)]
    ELSE IF x.t = "seq"
    THEN LET dst == Alloc(h)
         IN [h |-> loadItems([h EXCEPT ![dst] = SeqNode([i \in 1..Len(x.v) |-> NIL])], x, dst, 1),
             v |-> Ref(dst)]
    ELSE [h |-> h, v |-> x]

\* leaves: a missing key, an explicit nil, a scalar, a one-element sequence
Leaves(n) == {ABSENT, NIL, IntV(n), ASeq(<<IntV(n)>>)}

\* nested trees of depth <= d (they use key "a" only, to keep the set small)
RECURSIVE Nested(_, _)
Nested(d, n) ==
    IF d = 0 THEN {}
    ELSE {ATree(f) : f \in {g \in [Keys -> Leaves(n) \cup Nested(d - 1, n)] : g["b"] = ABSENT}}

\* the trees an input is drawn from; scalars of `existing` are 1, of `new` 2
Trees(n) == {ATree(f) : f \in [Keys -> Leaves(n) \cup Nested(MaxDepth - 1, n)]}

-----------------------------------------------------------------------------
(* Variables a specification does not use stay at these values *)

NoOp == [op |-> "none", acc |-> 0, path |-> <<>>, val |-> NIL, res |-> NIL, spawned |-> {}]

StoreIdle ==
    /\ accs = <<>>
    /\ nextCb = 0
    /\ last = NoOp
    /\ nops = 0
    /\ crashed = FALSE

ConcIdle ==
    /\ th = <<>>
    /\ mu = [w |-> 0, r |-> {}]
    /\ gos = <<>>
    /\ sets = {}

NoBind == [op |-> "none", kind |-> "ptr", type |-> NIL, options |-> NIL, before |-> NIL,
           panic |-> FALSE]

BindIdle ==
    /\ bLive = NIL
    /\ bDefault = NIL
    /\ bTarget = NIL
    /\ bErr = FALSE
    /\ bpc = "idle"
    /\ bCall = NoBind

NoCall == [name |-> "none", key |-> <<>>, default |-> <<>>, res |-> NIL]

ConvIdle ==
    /\ cData = NIL
    /\ cCall = NoCall

MergeIdle ==
    /\ mExisting = NIL
    /\ mNew = NIL
    /\ mResult = NIL
    /\ mSnap = [existing |-> NIL, new |-> NIL, result |-> NIL]
    /\ mTouched = "none"
    /\ mpc = "idle"

-----------------------------------------------------------------------------
(* Merge harness: DeepMerge on two arbitrary trees, then one caller write *)

MergeInit ==
    /\ \E x \in Trees(1) \cup {NIL}, y \in Trees(2) \cup {NIL} :
          LET r1 == Load(EmptyHeap, x)
              r2 == Load(r1.h, y)
          IN /\ heap = r2.h
             /\ mExisting = r1.v
             /\ mNew = r2.v
             /\ mSnap = [existing |-> x, new |-> y, result |-> NIL]
    /\ mResult = NIL
    /\ mTouched = "none"
    /\ mpc = "start"
    /\ StoreIdle
    /\ ConcIdle
    /\ BindIdle
    /\ ConvIdle

\* result := merger.DeepMerge(existing, new)
CallDeepMerge ==
    /\ mpc = "start"
    /\ LET r == DeepMerge(heap, mExisting, mNew)
       IN /\ heap' = Collect(r.h, {mExisting, mNew, r.v})
          /\ mResult' = r.v
          /\ mSnap' = [mSnap EXCEPT !.result = Abs(r.h, r.v)]
    /\ mpc' = "merged"
    /\ UNCHANGED <<mExisting, mNew, mTouched, storeVars, concVars, bindVars, convVars>>

\* merger.MergeInPlace(existing, new)
CallMergeInPlace ==
    /\ mpc = "start"
    /\ LET h == MergeInPlace(heap, mExisting, mNew)
       IN /\ heap' = Collect(h, {mExisting, mNew})
          /\ mSnap' = [mSnap EXCEPT !.result = Abs(h, mExisting)]
    /\ mpc' = "inplace"
    /\ UNCHANGED <<mExisting, mNew, mResult, mTouched, storeVars, concVars, bindVars, convVars>>

Root(which) ==
    CASE which = "existing" -> mExisting
      [] which = "new" -> mNew
      [] OTHER -> mResult

\* the caller assigns into a map it reaches from one of the three trees: m[k] = 9
CallerWritesMap ==
    /\ mpc \in {"merged", "inplace"}
    /\ mTouched = "none"
    /\ \E which \in {"existing", "new", "result"} :
         \E a \in Reach(heap, Root(which)), k \in Keys :
            /\ heap[a].kind = "map"
            /\ heap' = [heap EXCEPT ![a].m[k] = IntV(9)]
            /\ mTouched' = which
    /\ UNCHANGED <<mExisting, mNew, mResult, mSnap, mpc, storeVars, concVars, bindVars, convVars>>

\* the caller assigns into a slice it reaches from one of the three trees: s[0] = 9
CallerWritesSlice ==
    /\ mpc \in {"merged", "inplace"}
    /\ mTouched = "none"
    /\ \E which \in {"existing", "new", "result"} :
         \E a \in Reach(heap, Root(which)) :
            /\ heap[a].kind = "seq"
            /\ Len(heap[a].s) > 0
            /\ heap' = [heap EXCEPT ![a].s[1] = IntV(9)]
            /\ mTouched' = which
    /\ UNCHANGED <<mExisting, mNew, mResult, mSnap, mpc, storeVars, concVars, bindVars, convVars>>

MergeNext == CallDeepMerge \/ CallMergeInPlace \/ CallerWritesMap \/ CallerWritesSlice

SpecMerge == MergeInit /\ [][MergeNext]_vars

-----------------------------------------------------------------------------
(* Claims about DeepMerge *)

\* C1: DeepMerge(A, B) leaves A and B as they were and returns a tree that
\* shares no map or slice with A or B: a later write into the result, at any
\* depth, is invisible in A and B, and a later write into A or B is invisible
\* in the result.
C1_DeepMergeCopyOnWrite ==
    mpc = "merged" =>
        /\ mTouched \in {"none", "result"} =>
              /\ Abs(heap, mExisting) = mSnap.existing
              /\ Abs(heap, mNew) = mSnap.new
        /\ mTouched \in {"none", "existing", "new"} =>
              Abs(heap, mResult) = mSnap.result
        /\ Reach(heap, mResult) \cap (Reach(heap, mExisting) \cup Reach(heap, mNew)) = {}

\* both inputs hold a tree under "a", they were merged, and the caller then
\* wrote below the root of the result
C1_Witness ==
    /\ mpc = "merged"
    /\ mTouched = "result"
    /\ mExisting # NIL /\ mNew # NIL
    /\ mSnap.existing.v["a"].t = "tree"
    /\ mSnap.new.v["a"].t = "tree"
    /\ mSnap.result.v["a"].t = "tree"
    /\ Abs(heap, mResult).v["a"] # mSnap.result.v["a"]
    /\ Abs(heap, mResult).v["a"].t = "tree"

\* the merge the specification describes, on trees without addresses
RECURSIVE RefMerge(_, _)
RefMerge(x, y) ==
    IF x = NIL THEN y
    ELSE IF y = NIL THEN x
    ELSE ATree([k \in Keys |->
            IF y.v[k] = ABSENT THEN x.v[k]
            ELSE IF x.v[k] = ABSENT THEN y.v[k]
            ELSE IF x.v[k].t = "tree" /\ y.v[k].t = "tree" THEN RefMerge(x.v[k], y.v[k])
            ELSE y.v[k]])

\* C2: DeepMerge(existing, incoming) is the reference merge: a key only in
\* existing keeps its value, a key only in incoming takes the incoming value,
\* a key in both is merged recursively when both values are trees and is the
\* incoming value otherwise (also when that is nil, a sequence or a scalar);
\* when every value of incoming is a scalar the result holds incoming[k] at
\* every key k of incoming.
C2_DeepMergeIsReferenceMerge ==
    mpc = "merged" =>
        /\ mSnap.result = RefMerge(mSnap.existing, mSnap.new)
        /\ (/\ mSnap.existing # NIL
            /\ mSnap.new # NIL
            /\ \A k \in Keys : mSnap.new.v[k].t \in {"absent", "nil", "int"})
              => \A k \in Keys : mSnap.new.v[k] # ABSENT => mSnap.result.v[k] = mSnap.new.v[k]

\* a merge that recursed under "a", overrode a value there with nil, and
\* replaced a sequence by a sequence under "b"
C2_Witness ==
    /\ mpc = "merged"
    /\ mSnap.existing # NIL /\ mSnap.new # NIL
    /\ mSnap.existing.v["a"].t = "tree"
    /\ mSnap.new.v["a"].t = "tree"
    /\ mSnap.existing.v["a"].v["a"] = IntV(1)
    /\ mSnap.new.v["a"].v["a"] = NIL
    /\ mSnap.result.v["a"].v["a"] = NIL
    /\ mSnap.existing.v["b"].t = "seq"
    /\ mSnap.new.v["b"].t = "seq"
    /\ mSnap.result.v["b"] = mSnap.new.v["b"]

-----------------------------------------------------------------------------
(* confy.go: the key-path store *)

\* a dotted key after strings.Split(key, "."): one or two segments, and "a.b.a"
Paths == {<<k>> : k \in Keys} \cup {<<j, k>> : j, k \in Keys} \cup {<<"a", "b", "a">>}

IsPrefix(p, q) == Len(p) <= Len(q) /\ SubSeq(q, 1, Len(p)) = p

\* getValue: descend one segment at a time; nil on a nil or non-map node
\* (the map[any]any case is left out: no operation modelled here builds one)
RECURSIVE getValueLoop(_, _, _)
getValueLoop(h, current, keys) ==
    IF keys = <<>> THEN current
    ELSE IF current = NIL THEN NIL
    ELSE IF IsMap(h, current) THEN getValueLoop(h, Index(h, current.v, Head(keys)), Tail(keys))
    ELSE NIL

getValue(h, data, key) == getValueLoop(h, data, key)

\* one turn of the loop of setValue at a segment k that is not the last: a
\* nil entry becomes a new map, an entry that is no map is replaced by a new
\* map; `next` is the map the walk goes on in
setValueStep(h, current, k) ==
    LET h1 == IF Index(h, current, k) = NIL
              THEN [h EXCEPT ![Alloc(h)] = MapNode(EmptyM), ![current].m[k] = Ref(Alloc(h))]
              ELSE h
    IN IF IsMap(h1, h1[current].m[k])
       THEN [h |-> h1, next |-> h1[current].m[k].v]
       ELSE [h |-> [h1 EXCEPT ![Alloc(h1)] = MapNode(EmptyM), ![current].m[k] = Ref(Alloc(h1))],
             next |-> Alloc(h1)]

\* a plausible slip: a non-map intermediate is kept and the walk stops there
RECURSIVE setValue_KeepsScalar(_, _, _, _)
setValue_KeepsScalar(h, current, keys, value) ==
    LET k == Head(keys)
    IN IF Len(keys) = 1 THEN [h EXCEPT ![current].m[k] = value]
       ELSE IF Index(h, current, k) = NIL
            THEN LET dst == Alloc(h)
                     h1 == [h EXCEPT ![dst] = MapNode(EmptyM), ![current].m[k] = Ref(dst)]
                 IN setValue_KeepsScalar(h1, dst, Tail(keys), value)
            ELSE IF IsMap(h, h[current].m[k])
                 THEN setValue_KeepsScalar(h, h[current].m[k].v, Tail(keys), value)
                 ELSE h

\* setValue: walk from `current` (the address of c.data) along the segments,
\* then current[k] = value at the last one
RECURSIVE setValue(_, _, _, _)
setValue(h, current, keys, value) ==
    IF Len(keys) = 1 THEN [h EXCEPT ![current].m[Head(keys)] = value]
    ELSE LET r == setValueStep(h, current, Head(keys))
         IN setValue(r.h, r.next, Tail(keys), value)

\* getAllKeys: every dotted path of the tree, intermediate nodes included
RECURSIVE getAllKeys(_, _, _)
getAllKeys(h, data, prefix) ==
    IF IsMap(h, data)
    THEN UNION {{prefix \o <<k>>} \cup getAllKeys(h, h[data.v].m[k], prefix \o <<k>>) :
                    k \in {x \in Keys : h[data.v].m[x] # ABSENT}}
    ELSE {}

-----------------------------------------------------------------------------
(* confy.go: accessors *)

\* keys a callback is registered under in the runs explored
WatchKeySeq == <<(<<"a">>), <<"a", "b">>>>
WatchKeys == {WatchKeySeq[n] : n \in DOMAIN WatchKeySeq}

NoCallbacks == [k \in WatchKeys |-> <<>>]

\* where an accessor comes from: New, Sub(path) of parent, or Clone of parent.
\* `tree` says that Sub found a tree at path; `level` records what was called
\* since Sub returned: 0 = only Set through the sub-accessor and Set through
\* the parent at keys that are no prefix of path; 1 = also MergeWith on the
\* parent and watch-driven updates of the parent; 2 = also Set through the
\* parent at path itself; 3 = any other write.
Origin(kind, parent, path, tree) ==
    [kind |-> kind, parent |-> parent, path |-> path, tree |-> tree, level |-> 0]

Accessor(data, strict, origin) ==
    [data |-> data, watchCallbacks |-> NoCallbacks, changeCallbacks |-> <<>>,
     strict |-> strict, origin |-> origin]

AccIds == 1..Len(accs)

Range(f) == {f[i] : i \in DOMAIN f}

Max(x, y) == IF x >= y THEN x ELSE y

\* the level of sub-accessor x after operation op was called on accessor j at key q
NextLevel(x, o, j, op, q) ==
    IF op \in {"Get", "HasKey", "GetKeys", "Sub", "Clone", "WatchWithCallback", "WatchChanges"}
    THEN o.level
    ELSE IF j = x /\ op = "Set" THEN o.level
    ELSE IF j = o.parent /\ op = "Set" /\ ~IsPrefix(q, o.path) THEN o.level
    ELSE IF j = o.parent /\ op \in {"MergeWith", "Update"} THEN Max(o.level, 1)
    ELSE IF j = o.parent /\ op = "Set" /\ q = o.path THEN Max(o.level, 2)
    ELSE 3

Track(as, j, op, q) ==
    [x \in DOMAIN as |->
        IF as[x].origin.kind = "sub"
        THEN [as[x] EXCEPT !.origin.level = NextLevel(x, as[x].origin, j, op, q)]
        ELSE as[x]]

\* everything the program and the caller still hold
Roots(as, lst) == {as[i].data : i \in DOMAIN as} \cup {lst.val, lst.res}

\* the loop of notifyWatchCallbacks over the registry, from its n-th key on
RECURSIVE notifyWatchLoop(_, _, _)
notifyWatchLoop(h, c, n) ==
    IF n > Len(WatchKeySeq) THEN <<>>
    ELSE LET key == WatchKeySeq[n]
             value == getValue(h, c.data, key)
         IN [m \in DOMAIN c.watchCallbacks[key] |->
                [kind |-> "watch", cb |-> c.watchCallbacks[key][m], key |-> key, val |-> value]]
            \o notifyWatchLoop(h, c, n + 1)

\* a plausible slip: callbacks of a key are started once per registered key
notifyWatchCallbacks_Twice(h, c) == notifyWatchLoop(h, c, 1) \o notifyWatchLoop(h, c, 2)

\* notifyWatchCallbacks: the goroutines it starts, one per registered
\* callback, each with its key and the value found at that key now
notifyWatchCallbacks(h, c) == notifyWatchLoop(h, c, 1)

\* notifyChangeCallbacks: one goroutine per registered change callback
notifyChangeCallbacks(c, key, newValue) ==
    [m \in DOMAIN c.changeCallbacks |->
        [kind |-> "change", cb |-> c.changeCallbacks[m], key |-> key, val |-> newValue]]

\* the goroutines a call started, each `go` statement executed being one,
\* told apart by the order in which they were started
Goroutines(records) ==
    {[no |-> n, kind |-> records[n].kind, cb |-> records[n].cb, key |-> records[n].key,
      val |-> records[n].val] : n \in DOMAIN records}

\* a tree with one entry, as a caller's literal map[string]any{k: x}
One(k, x) == ATree([j \in Keys |-> IF j = k THEN x ELSE ABSENT])

\* the record of the last call: operation, accessor, key, argument, result,
\* and the goroutines it started
Op(name, i, key, value, res, spawned) ==
    [op |-> name, acc |-> i, path |-> key, val |-> value, res |-> res, spawned |-> spawned]

BoolV(b) == [t |-> "bool", v |-> b]
KeysV(ks) == [t |-> "keys", v |-> ks]

Ready == nops < MaxOps /\ ~crashed

\* the call returns: what nobody holds any more is collected
Finish(h, as, lst, cb) ==
    /\ heap' = Collect(h, Roots(as, lst))
    /\ accs' = as
    /\ last' = lst
    /\ nextCb' = cb
    /\ nops' = nops + 1
    /\ UNCHANGED <<crashed, mergeVars, bindVars, concVars, convVars>>

\* a recursive traversal of a cyclic tree never returns: the goroutine stack
\* overflows and the process dies
Overflow(name, i) ==
    /\ crashed' = TRUE
    /\ last' = Op(name, i, <<>>, NIL, NIL, {})
    /\ nops' = nops + 1
    /\ UNCHANGED <<heap, accs, nextCb, mergeVars, bindVars, concVars, convVars>>

\* MergeInPlace walks all of every tree it copies or merges
MergeOverflows(h, existing, new) ==
    \E k \in Keys :
        LET n == h[new.v].m[k]
            e == h[existing.v].m[k]
        IN /\ n \notin {ABSENT, NIL}
           /\ \/ ~Acyclic(h, n)
              \/ IsMap(h, e) /\ IsMap(h, n) /\ ~Acyclic(h, e)

\* a plausible slip: only the callbacks watching the key set are started
Set_OwnKey(i, key, h, value) ==
    LET c == accs[i]
        oldValue == getValue(h, c.data, key)
        h1 == setValue(h, c.data.v, key, value)
        started == Goroutines(notifyChangeCallbacks(c, key, value) \o notifyWatchCallbacks(h1, c))
    IN Finish(h1, Track(accs, i, "Set", key),
              Op("Set", i, key, value, oldValue, {g \in started : g.key = key}), nextCb)

\* c.Set(key, value), the caller's heap h holding value
Set(i, key, h, value) ==
    LET c == accs[i]
        oldValue == getValue(h, c.data, key)
        h1 == setValue(h, c.data.v, key, value)
        started == Goroutines(notifyChangeCallbacks(c, key, value) \o notifyWatchCallbacks(h1, c))
    IN Finish(h1, Track(accs, i, "Set", key), Op("Set", i, key, value, oldValue, started), nextCb)

\* c.Get(key)
Get(i, key) ==
    /\ Ready
    /\ Finish(heap, accs, Op("Get", i, key, NIL, getValue(heap, accs[i].data, key), {}), nextCb)

\* c.HasKey(key)
HasKey(i, key) ==
    /\ Ready
    /\ Finish(heap, accs,
              Op("HasKey", i, key, NIL, BoolV(getValue(heap, accs[i].data, key) # NIL), {}), nextCb)

\* the value c.GetSection(key) returns
SectionOf(h, c, key) ==
    LET value == getValue(h, c.data, key)
    IN IF value = NIL THEN NIL ELSE IF IsMap(h, value) THEN value ELSE NIL

\* c.GetSection(key)
GetSection(i, key) ==
    /\ Ready
    /\ Finish(heap, accs, Op("GetSection", i, key, NIL, SectionOf(heap, accs[i], key), {}), nextCb)

\* c.GetAllSettings()
GetAllSettings(i) ==
    /\ Ready
    /\ IF Acyclic(heap, accs[i].data)
       THEN LET r == DeepCopy(heap, accs[i].data)
            IN Finish(r.h, accs, Op("GetAllSettings", i, <<>>, NIL, r.v, {}), nextCb)
       ELSE Overflow("GetAllSettings", i)

\* c.GetKeys(); Size() is the length of the same list
GetKeys(i) ==
    /\ Ready
    /\ IF Acyclic(heap, accs[i].data)
       THEN Finish(heap, accs,
                   Op("GetKeys", i, <<>>, NIL, KeysV(getAllKeys(heap, accs[i].data, <<>>)), {}), nextCb)
       ELSE Overflow("GetKeys", i)

\* c.Sub(key): the section itself when there is one, else a new empty map
Sub(i, key) ==
    /\ Ready
    /\ Len(accs) < MaxAccs
    /\ LET subData == SectionOf(heap, accs[i], key)
           h1 == IF subData = NIL THEN [heap EXCEPT ![Alloc(heap)] = MapNode(EmptyM)] ELSE heap
           data == IF subData = NIL THEN Ref(Alloc(heap)) ELSE subData
           subManager == Accessor(data, FALSE, Origin("sub", i, key, subData # NIL))
       IN Finish(h1, Append(accs, subManager), Op("Sub", i, key, NIL, NIL, {}), nextCb)

\* a plausible slip: the clone keeps the original's map
Clone_Shares(i) ==
    /\ Ready
    /\ Len(accs) < MaxAccs
    /\ Finish(heap, Append(accs, Accessor(accs[i].data, FALSE, Origin("clone", i, <<>>, FALSE))),
              Op("Clone", i, <<>>, NIL, NIL, {}), nextCb)

\* c.Clone()
Clone(i) ==
    /\ Ready
    /\ Len(accs) < MaxAccs
    /\ IF Acyclic(heap, accs[i].data)
       THEN LET r == DeepCopy(heap, accs[i].data)
                cloned == Accessor(r.v, FALSE, Origin("clone", i, <<>>, FALSE))
            IN Finish(r.h, Append(accs, cloned), Op("Clone", i, <<>>, NIL, NIL, {}), nextCb)
       ELSE Overflow("Clone", i)

\* c.MergeWith(other), other being another accessor (c.MergeWith(c) takes
\* c.mu twice and belongs to the callers that block)
MergeWith(i, j) ==
    /\ Ready
    /\ i # j
    /\ IF MergeOverflows(heap, accs[i].data, accs[j].data)
       THEN Overflow("MergeWith", i)
       ELSE Finish(MergeInPlace(heap, accs[i].data, accs[j].data),
                   Track(accs, i, "MergeWith", <<>>),
                   Op("MergeWith", i, <<>>, NIL, NIL, {}), nextCb)

\* c.Reset()
Reset(i) ==
    /\ Ready
    /\ LET dst == Alloc(heap)
           as == [accs EXCEPT ![i].data = Ref(dst),
                              ![i].watchCallbacks = NoCallbacks,
                              ![i].changeCallbacks = <<>>]
       IN Finish([heap EXCEPT ![dst] = MapNode(EmptyM)], Track(as, i, "Reset", <<>>),
                 Op("Reset", i, <<>>, NIL, NIL, {}), nextCb)

\* a plausible slip: a rejected update is not taken back
handleConfigChange_KeepsMerged(i, h, data, valid) ==
    /\ Ready
    /\ accs[i].origin.kind = "new"
    /\ LET c == accs[i]
           h2 == MergeInPlace(h, c.data, data)
       IN IF MergeOverflows(h, c.data, data)
          THEN Overflow("Update", i)
          ELSE IF ~valid /\ c.strict
               THEN Finish(h2, Track(accs, i, "Update", <<>>),
                           Op("Update", i, <<>>, NIL, BoolV(FALSE), {}), nextCb)
               ELSE Finish(h2, Track(accs, i, "Update", <<>>),
                           Op("Update", i, <<>>, NIL, BoolV(TRUE),
                              Goroutines(notifyChangeCallbacks(c, <<>>, NIL)
                                             \o notifyWatchCallbacks(h2, c))),
                           nextCb)

\* c.handleConfigChange(source, data), called by the watcher of an accessor
\* made by New; valid is what validator.ValidateAll finds for the merged tree
handleConfigChange(i, h, data, valid) ==
    /\ Ready
    /\ accs[i].origin.kind = "new"
    /\ LET c == accs[i]
       IN IF MergeOverflows(h, c.data, data)
          THEN Overflow("Update", i)
          ELSE LET oldData == Alloc(h)
                   h1 == [h EXCEPT ![oldData] = h[c.data.v]]
                   h2 == MergeInPlace(h1, c.data, data)
               IN IF ~valid /\ c.strict
                  THEN Finish(h2, Track([accs EXCEPT ![i].data = Ref(oldData)], i, "Update", <<>>),
                              Op("Update", i, <<>>, NIL, BoolV(FALSE), {}), nextCb)
                  ELSE Finish(h2, Track(accs, i, "Update", <<>>),
                              Op("Update", i, <<>>, NIL, BoolV(TRUE),
                                 Goroutines(notifyChangeCallbacks(c, <<>>, NIL)
                                                \o notifyWatchCallbacks(h2, c))),
                              nextCb)

\* c.WatchWithCallback(key, callback), callback being a new function
WatchWithCallback(i, key) ==
    /\ Ready
    /\ nextCb < MaxCallbacks
    /\ Finish(heap,
              [accs EXCEPT ![i].watchCallbacks[key] = Append(@, nextCb + 1)],
              Op("WatchWithCallback", i, key, NIL, NIL, {}), nextCb + 1)

\* c.WatchChanges(callback), callback being a new function
WatchChanges(i) ==
    /\ Ready
    /\ nextCb < MaxCallbacks
    /\ Finish(heap,
              [accs EXCEPT ![i].changeCallbacks = Append(@, nextCb + 1)],
              Op("WatchChanges", i, <<>>, NIL, NIL, {}), nextCb + 1)

-----------------------------------------------------------------------------
(* One caller, one call at a time: arguments are new values *)

\* the tree the first accessor holds after loading its sources
InitTrees == {ATree([k \in Keys |-> ABSENT]), One("a", IntV(1)), One("a", One("a", IntV(1)))}

\* what a caller passes to Set: nil, a scalar, a map literal
SetValues == {NIL, IntV(2), One("a", IntV(2))}

\* what a changed source delivers to handleConfigChange
Updates == {One("a", IntV(3)), One("a", One("b", IntV(3))), One("b", IntV(3))}

StoreInit ==
    /\ \E x \in InitTrees, strict \in BOOLEAN :
          LET r == Load(EmptyHeap, x)
          IN /\ heap = r.h
             /\ accs = <<Accessor(r.v, strict, Origin("new", 0, <<>>, FALSE))>>
    /\ nextCb = 0
    /\ last = NoOp
    /\ nops = 0
    /\ crashed = FALSE
    /\ MergeIdle
    /\ ConcIdle
    /\ BindIdle
    /\ ConvIdle

CallSet == \E i \in AccIds, key \in Paths, x \in SetValues :
               LET r == Load(heap, x) IN Ready /\ Set(i, key, r.h, r.v)
CallGet == \E i \in AccIds, key \in Paths : Get(i, key)
CallHasKey == \E i \in AccIds, key \in Paths : HasKey(i, key)
CallSub == \E i \in AccIds, key \in Paths : Sub(i, key)
CallClone == \E i \in AccIds : Clone(i)
CallMergeWith == \E i, j \in AccIds : MergeWith(i, j)
CallReset == \E i \in AccIds : Reset(i)
SourceChanges == \E i \in AccIds, x \in Updates, valid \in BOOLEAN :
                     LET r == Load(heap, x) IN handleConfigChange(i, r.h, r.v, valid)
CallWatchWithCallback == \E i \in AccIds, key \in WatchKeys : WatchWithCallback(i, key)
CallWatchChanges == \E i \in AccIds : WatchChanges(i)

StoreNext ==
    \/ CallSet
    \/ CallGet
    \/ CallHasKey
    \/ CallSub
    \/ CallClone
    \/ CallMergeWith
    \/ CallReset
    \/ SourceChanges
    \/ CallWatchWithCallback
    \/ CallWatchChanges

SpecStore == StoreInit /\ [][StoreNext]_vars

-----------------------------------------------------------------------------
(* Claims about the key-path store *)

ProperPrefixes(p) == {SubSeq(p, 1, n) : n \in 1..(Len(p) - 1)}

\* descending a tree one segment at a time: nil as soon as a segment is
\* missing or the node reached is not a tree
RECURSIVE Descend(_, _)
Descend(t, q) ==
    IF q = <<>> THEN t
    ELSE IF t.t # "tree" THEN NIL
    ELSE IF t.v[Head(q)] = ABSENT THEN NIL
    ELSE Descend(t.v[Head(q)], Tail(q))

\* after a Set(p, v) with v non-nil that just returned: Get(p) is v, HasKey(p)
\* is true, every proper prefix of p is a tree
SetPost ==
    (last.op = "Set" /\ last.val # NIL) =>
        LET c == accs[last.acc]
        IN /\ getValue(heap, c.data, last.path) = last.val
           /\ getValue(heap, c.data, last.path) # NIL
           /\ \A q \in ProperPrefixes(last.path) : IsMap(heap, getValue(heap, c.data, q))

\* a step that is a Set(p, v), v non-nil: an intermediate segment that was a
\* tree is the same tree afterwards; one that was missing or not a tree is a
\* new tree holding nothing but the next segment of p
SetStep ==
    (last'.op = "Set" /\ last'.val # NIL) =>
        LET data == accs[last'.acc].data
            p == last'.path
        IN \A q \in ProperPrefixes(p) :
              LET before == getValue(heap, data, q)
                  after == getValue(heap', data, q)
              IN IF IsMap(heap, before) THEN after = before
                 ELSE /\ IsMap(heap', after)
                      /\ heap[after.v].kind = "free"
                      /\ \A k \in Keys \ {p[Len(q) + 1]} : heap'[after.v].m[k] = ABSENT

\* Get(q) is the descent along q, on every accessor
GetDescends ==
    \A i \in AccIds, q \in Paths :
        Abs(heap, getValue(heap, accs[i].data, q)) = Descend(Abs(heap, accs[i].data), q)

\* C4: from any reachable tree, after Set(p, v) with v non-nil, Get(p) returns
\* v, HasKey(p) is true and every proper prefix of p is tree-valued, missing
\* intermediates being created as new trees and non-tree intermediates being
\* replaced by new trees; Get(q) is nil as soon as a segment of q is missing or
\* the node reached is not a tree.
C4_SetThenGet == []SetPost /\ []GetDescends /\ [][SetStep]_vars

\* a Set of a three-segment key with a non-nil value has returned, and the
\* sibling key next to its leaf is absent
C4_Witness ==
    /\ last.op = "Set"
    /\ last.val # NIL
    /\ Len(last.path) = 3
    /\ getValue(heap, accs[last.acc].data, last.path) = last.val
    /\ getValue(heap, accs[last.acc].data, <<"a", "b", "b">>) = NIL

Clones == {x \in AccIds : accs[x].origin.kind = "clone"}

\* the callbacks registered on an accessor
Registered(c) ==
    Range(c.changeCallbacks) \cup UNION {Range(c.watchCallbacks[k]) : k \in WatchKeys}

\* a step in which a clone or its original is called leaves the other's tree as it was
CloneFrame ==
    \A x \in Clones \cap DOMAIN accs' :
        LET o == accs[x].origin.parent
        IN /\ last'.acc = x => Abs(heap', accs'[o].data) = Abs(heap, accs[o].data)
           /\ last'.acc = o => Abs(heap', accs'[x].data) = Abs(heap, accs[x].data)

\* a clone and its original share no node, and a Set on the clone starts no
\* callback registered on the original
CloneApart ==
    \A x \in Clones :
        LET o == accs[x].origin.parent
        IN /\ Reach(heap, accs[x].data) \cap Reach(heap, accs[o].data) = {}
           /\ (last.op = "Set" /\ last.acc = x) =>
                  {g.cb : g \in last.spawned} \cap Registered(accs[o]) = {}

Subs == {x \in AccIds : accs[x].origin.kind = "sub"}

\* s.Get(k) equals parent.Get(p + "." + k) for every k
AliasOf(x) ==
    LET o == accs[x].origin
    IN \A k \in Paths :
          Abs(heap, getValue(heap, accs[x].data, k))
              = Abs(heap, getValue(heap, accs[o.parent].data, o.path \o k))

\* Sub has just returned: the accessor has a tree, a new empty one when the
\* key held no tree
SubReturns ==
    last.op = "Sub" =>
        LET s == accs[Len(accs)]
        IN /\ IsMap(heap, s.data)
           /\ ~s.origin.tree =>
                 /\ Abs(heap, s.data) = ATree([k \in Keys |-> ABSENT])
                 /\ \A i \in AccIds \ {Len(accs)} : s.data.v \notin Reach(heap, accs[i].data)

\* while the parent is only Set at keys that are no prefix of p, and the
\* sub-accessor is only Set, the two agree
SubAliasWhileNodeStays ==
    \A x \in Subs : (accs[x].origin.tree /\ accs[x].origin.level = 0) => AliasOf(x)

\* the same, merges into the parent included
SubAliasAcrossMerges ==
    \A x \in Subs : (accs[x].origin.tree /\ accs[x].origin.level <= 1) => AliasOf(x)

\* C9: Sub(p) never returns nil: for p not tree-valued it returns an accessor
\* over a new empty tree; for p tree-valued it returns a live alias s: after
\* any sequence of Set through the parent at or beneath p, Set through s,
\* MergeWith on the parent and watch-driven updates of the parent, s.Get(k)
\* equals parent.Get(p + "." + k) for every k.
C9_SubIsLiveAlias ==
    /\ SubReturns
    /\ \A x \in Subs : (accs[x].origin.tree /\ accs[x].origin.level <= 2) => AliasOf(x)

\* C14: every operation that changes the live tree (here Set, MergeWith and
\* an accepted watch-driven update) dispatches change notification after the
\* mutation: it starts an invocation of each registered change callback and
\* of each registered watch callback of the accessor.
C14_EveryMutationNotifies ==
    [][(/\ nops' = nops + 1
        /\ ~crashed'
        /\ last'.op \in {"Set", "MergeWith", "Update"}
        /\ Abs(heap', accs'[last'.acc].data) # Abs(heap, accs[last'.acc].data))
          => \A cb \in Registered(accs'[last'.acc]) : \E g \in last'.spawned : g.cb = cb]_vars

-----------------------------------------------------------------------------
(* One caller that keeps what a read returned, writes into it, and passes it
   to Set *)

\* the caller assigns into a map it reaches from the tree the last read
\* returned: m[k] = 9
CallerWritesResult ==
    /\ Ready
    /\ last.op \in {"Get", "GetSection", "GetAllSettings"}
    /\ \E a \in Reach(heap, last.res), k \in Keys :
          /\ heap[a].kind = "map"
          /\ LET lst == [last EXCEPT !.op = "CallerWrites", !.val = [t |-> "op", v |-> last.op]]
             IN Finish([heap EXCEPT ![a].m[k] = IntV(9)], accs, lst, nextCb)

\* the caller passes the tree the last read returned to Set
CallSetReturned ==
    /\ Ready
    /\ last.op \in {"Get", "GetSection"}
    /\ IsMap(heap, last.res)
    /\ \E i \in AccIds, key \in Paths : Set(i, key, heap, last.res)

CallGetSection == \E i \in AccIds, key \in Paths : GetSection(i, key)
CallGetAllSettings == \E i \in AccIds : GetAllSettings(i)
CallGetKeys == \E i \in AccIds : GetKeys(i)

AliasNext ==
    \/ CallSet
    \/ CallSetReturned
    \/ CallGet
    \/ CallGetSection
    \/ CallGetAllSettings
    \/ CallGetKeys
    \/ CallHasKey
    \/ CallClone
    \/ CallerWritesResult

SpecAlias == StoreInit /\ [][AliasNext]_vars

\* what Get and HasKey return on an accessor, for every key (a tree is seen as
\* a tree, whatever it holds: its entries are seen at their own keys)
Observe(h, c) ==
    [q \in Paths |-> LET v == getValue(h, c.data, q)
                     IN IF v.t = "ref" THEN [t |-> h[v.v].kind, v |-> 0] ELSE v]

\* C8: the live tree changes only through the accessor's write operations: a
\* caller writing, at any depth, into a tree it got from GetAllSettings, Get or
\* GetSection changes nothing that a later Get or HasKey on the accessor returns.
C8_ReadsShareNothing ==
    [][last'.op = "CallerWrites" =>
          \A i \in AccIds : Observe(heap', accs'[i]) = Observe(heap, accs[i])]_vars

\* C10: in every reachable state the live tree of every accessor is acyclic,
\* also after a Set whose value is a tree Get or GetSection returned, so that
\* the recursive traversals return.
C10_TreeIsAcyclic ==
    /\ \A i \in AccIds : Acyclic(heap, accs[i].data)
    /\ ~crashed

-----------------------------------------------------------------------------
(* Concurrent callers of one accessor: Set(k, v), Get(k), WatchWithCallback *)

Threads == 1..MaxThreads

\* the key the callers Set and Get, and a key beside it
K == <<"a", "b">>
SetKeys == {K, <<"b">>}

\* the tree before any of the calls
ConcTrees == {ATree([k \in Keys |-> ABSENT]), One("a", IntV(1)), One("a", One("b", IntV(1)))}

Idle == [pc |-> "idle", op |-> "none", key |-> <<>>, val |-> NIL, cur |-> 0, rest |-> <<>>,
         res |-> NIL, regs |-> NoCallbacks, calls |-> 0]

ConcInit ==
    /\ \E x \in ConcTrees :
          LET r == Load(EmptyHeap, x)
          IN /\ heap = r.h
             /\ accs = <<Accessor(r.v, FALSE, Origin("new", 0, <<>>, FALSE))>>
             /\ last = Op("New", 1, K, NIL, getValue(r.h, r.v, K), {})
    /\ nextCb = 0
    /\ nops = 0
    /\ crashed = FALSE
    /\ th = [t \in Threads |-> Idle]
    /\ mu = [w |-> 0, r |-> {}]
    /\ gos = <<>>
    /\ sets = {}
    /\ MergeIdle
    /\ BindIdle
    /\ ConvIdle

\* the caller calls c.Set(key, v) with a value no other call passes
BeginSet(t) ==
    /\ th[t].pc = "idle"
    /\ th[t].calls < MaxCalls
    /\ \E key \in SetKeys :
          th' = [th EXCEPT ![t] = [@ EXCEPT !.pc = "lock", !.op = "Set", !.key = key,
                                            !.val = IntV(10 * t + th[t].calls + 1)]]
    /\ UNCHANGED <<heap, mergeVars, bindVars, storeVars, mu, gos, sets, convVars>>

\* the caller calls c.Get(K)
BeginGet(t) ==
    /\ th[t].pc = "idle"
    /\ th[t].calls < MaxCalls
    /\ th' = [th EXCEPT ![t] = [@ EXCEPT !.pc = "lock", !.op = "Get", !.key = K]]
    /\ UNCHANGED <<heap, mergeVars, bindVars, storeVars, mu, gos, sets, convVars>>

\* the caller calls c.WatchWithCallback(key, callback)
BeginWatch(t) ==
    /\ th[t].pc = "idle"
    /\ th[t].calls < MaxCalls
    /\ nextCb + Cardinality({u \in Threads : th[u].op = "Watch" /\ th[u].pc # "idle"}) < MaxCallbacks
    /\ \E key \in WatchKeys :
          th' = [th EXCEPT ![t] = [@ EXCEPT !.pc = "lock", !.op = "Watch", !.key = key]]
    /\ UNCHANGED <<heap, mergeVars, bindVars, storeVars, mu, gos, sets, convVars>>

\* a plausible slip: a reader does not wait for the writer
RLock_IgnoresWriter(t) ==
    /\ th[t].pc = "lock"
    /\ th[t].op = "Get"
    /\ mu' = [mu EXCEPT !.r = @ \cup {t}]
    /\ th' = [th EXCEPT ![t].pc = "read"]
    /\ UNCHANGED <<heap, mergeVars, bindVars, storeVars, gos, sets, convVars>>

\* c.mu.RLock() in Get: waits while a writer holds the lock
RLock(t) ==
    /\ th[t].pc = "lock"
    /\ th[t].op = "Get"
    /\ mu.w = 0
    /\ mu' = [mu EXCEPT !.r = @ \cup {t}]
    /\ th' = [th EXCEPT ![t].pc = "read"]
    /\ UNCHANGED <<heap, mergeVars, bindVars, storeVars, gos, sets, convVars>>

\* return c.getValue(key), with the deferred c.mu.RUnlock()
GetReturns(t) ==
    /\ th[t].pc = "read"
    /\ th' = [th EXCEPT ![t] = [@ EXCEPT !.pc = "idle", !.calls = @ + 1,
                                        !.res = getValue(heap, accs[1].data, th[t].key)]]
    /\ mu' = [mu EXCEPT !.r = @ \ {t}]
    /\ UNCHANGED <<heap, mergeVars, bindVars, storeVars, gos, sets, convVars>>

\* c.mu.Lock() in Set and WatchWithCallback: waits while anyone holds the
\* lock; in Set, oldValue := c.getValue(key) follows.  regs remembers the
\* callbacks registered at this moment.
Lock(t) ==
    /\ th[t].pc = "lock"
    /\ th[t].op \in {"Set", "Watch"}
    /\ mu.w = 0
    /\ mu.r = {}
    /\ mu' = [mu EXCEPT !.w = t]
    /\ th' = [th EXCEPT ![t] =
                [@ EXCEPT !.pc = IF th[t].op = "Watch" THEN "append"
                                 ELSE IF Len(th[t].key) = 1 THEN "leaf" ELSE "walk",
                          !.cur = accs[1].data.v,
                          !.rest = th[t].key,
                          !.regs = accs[1].watchCallbacks,
                          !.res = IF th[t].op = "Set"
                                  THEN getValue(heap, accs[1].data, th[t].key) ELSE NIL]]
    /\ UNCHANGED <<heap, mergeVars, bindVars, storeVars, gos, sets, convVars>>

\* setValue, one turn of its loop at a segment that is not the last
SetWalks(t) ==
    /\ th[t].pc = "walk"
    /\ LET r == setValueStep(heap, th[t].cur, Head(th[t].rest))
       IN /\ heap' = r.h
          /\ th' = [th EXCEPT ![t] = [@ EXCEPT !.cur = r.next, !.rest = Tail(@),
                                              !.pc = IF Len(th[t].rest) = 2 THEN "leaf" ELSE "walk"]]
    /\ UNCHANGED <<mergeVars, bindVars, storeVars, mu, gos, sets, convVars>>

\* setValue, the last turn: current[k] = value
SetWrites(t) ==
    /\ th[t].pc = "leaf"
    /\ heap' = [heap EXCEPT ![th[t].cur].m[Head(th[t].rest)] = th[t].val]
    /\ th' = [th EXCEPT ![t].pc = "notify"]
    /\ UNCHANGED <<mergeVars, bindVars, storeVars, mu, gos, sets, convVars>>

\* the goroutines of one notification, tagged with the call that started them
Started(records, by) ==
    [n \in DOMAIN records |->
        [cb |-> records[n].cb, key |-> records[n].key, val |-> records[n].val,
         by |-> by, done |-> FALSE]]

\* Set after setValue: notifyChangeCallbacks and notifyWatchCallbacks run
\* their `go` statements; the lock is still held, its Unlock being deferred
SetNotifies(t) ==
    /\ th[t].pc = "notify"
    /\ gos' = gos \o Started(notifyWatchCallbacks(heap, accs[1]), <<t, th[t].calls + 1>>)
    /\ th' = [th EXCEPT ![t].pc = "unlock"]
    /\ UNCHANGED <<heap, mergeVars, bindVars, storeVars, mu, sets, convVars>>

\* Set returns: the deferred c.mu.Unlock()
SetReturns(t) ==
    /\ th[t].pc = "unlock"
    /\ sets' = sets \cup {[by |-> <<t, th[t].calls + 1>>, key |-> th[t].key, val |-> th[t].val,
                           cbs |-> [k \in WatchKeys |-> Range(th[t].regs[k])]]}
    /\ heap' = Collect(heap, {accs[1].data})
    /\ mu' = [mu EXCEPT !.w = 0]
    /\ th' = [th EXCEPT ![t] = [@ EXCEPT !.pc = "idle", !.calls = @ + 1]]
    /\ UNCHANGED <<mergeVars, bindVars, storeVars, gos, convVars>>

\* WatchWithCallback under the lock: append to the registry, unlock
WatchReturns(t) ==
    /\ th[t].pc = "append"
    /\ accs' = [accs EXCEPT ![1].watchCallbacks[th[t].key] = Append(@, nextCb + 1)]
    /\ nextCb' = nextCb + 1
    /\ mu' = [mu EXCEPT !.w = 0]
    /\ th' = [th EXCEPT ![t] = [@ EXCEPT !.pc = "idle", !.calls = @ + 1]]
    /\ UNCHANGED <<heap, mergeVars, bindVars, last, nops, crashed, gos, sets, convVars>>

\* the scheduler runs a goroutine: callback(key, value)
RunCallback(n) ==
    /\ n \in DOMAIN gos
    /\ ~gos[n].done
    /\ gos' = [gos EXCEPT ![n].done = TRUE]
    /\ UNCHANGED <<heap, mergeVars, bindVars, storeVars, th, mu, sets, convVars>>

\* a step of caller t inside a call
Proceed(t) ==
    \/ RLock(t)
    \/ GetReturns(t)
    \/ Lock(t)
    \/ SetWalks(t)
    \/ SetWrites(t)
    \/ SetNotifies(t)
    \/ SetReturns(t)
    \/ WatchReturns(t)

\* as many goroutines as the calls can start
MaxGos == MaxThreads * MaxCalls * MaxCallbacks

ConcNext ==
    \/ \E t \in Threads : BeginSet(t)
    \/ \E t \in Threads : BeginGet(t)
    \/ \E t \in Threads : BeginWatch(t)
    \/ \E t \in Threads : Proceed(t)
    \/ \E n \in 1..MaxGos : RunCallback(n)

\* every caller inside a call goes on, and every goroutine started is run
ConcFair ==
    /\ \A t \in Threads : WF_vars(Proceed(t))
    /\ \A n \in 1..MaxGos : WF_vars(RunCallback(n))

SpecConc == ConcInit /\ [][ConcNext]_vars /\ ConcFair

-----------------------------------------------------------------------------
(* Claims about concurrent callers *)

\* callers inside the tree or the registry as writers, and as readers
InsideW == {t \in Threads : th[t].pc \in {"walk", "leaf", "notify", "unlock", "append"}}
InsideR == {t \in Threads : th[t].pc = "read"}

MutualExclusion ==
    /\ Cardinality(InsideW) <= 1
    /\ InsideW # {} => InsideR = {}

\* a Get(K) that returned gave the value from before all the calls or the
\* value of one Set(K, v) that has returned
GetSeesWhole ==
    \A t \in Threads :
        (th[t].op = "Get" /\ th[t].pc = "idle") =>
            th[t].res \in {last.res} \cup {x.val : x \in {y \in sets : y.key = K}}

EveryCallReturns == \A t \in Threads : (th[t].pc # "idle") ~> (th[t].pc = "idle")

\* C5: under any interleaving of concurrent Set(k, v_i) and Get(k) on one
\* accessor, no reader is inside the tree while a writer is and no two writers
\* overlap; every Get(k) returns the value from before the Sets or one of the
\* v_i; every call returns.
C5_SetGetAtomic == []MutualExclusion /\ []GetSeesWhole /\ EveryCallReturns

\* a Get waits for the lock while a Set is between creating the intermediate
\* tree and writing its leaf, and another Get has returned the value of a Set
C5_Witness ==
    \E t, u \in Threads :
        /\ th[t].op = "Get" /\ th[t].pc = "lock"
        /\ th[t].res \in {x.val : x \in sets}
        /\ th[u].pc = "leaf" /\ th[u].key = K
        /\ heap[th[u].cur].m = EmptyM

\* the goroutines a returned Set x started for callback cb
StartedFor(x, cb) == {n \in DOMAIN gos : gos[n].cb = cb /\ gos[n].by = x.by}

\* a Set that has returned started, for every callback registered when it took
\* the lock, one goroutine; for a callback registered for the key it set, that
\* goroutine carries the key and the value of the Set
OncePerSet ==
    \A x \in sets : \A k \in WatchKeys : \A cb \in x.cbs[k] :
        /\ Cardinality(StartedFor(x, cb)) = 1
        /\ x.key = k => \A n \in StartedFor(x, cb) : gos[n].key = k /\ gos[n].val = x.val

\* a callback has as many goroutines as Sets found it registered and have
\* returned or are about to
CountPerCallback ==
    \A cb \in 1..nextCb :
        Cardinality({n \in DOMAIN gos : gos[n].cb = cb})
            = Cardinality({x \in sets : \E k \in WatchKeys : cb \in x.cbs[k]})
                + Cardinality({t \in Threads : /\ th[t].pc = "unlock"
                                               /\ \E k \in WatchKeys : cb \in Range(th[t].regs[k])})

\* again and again every goroutine started so far has run (and one that has
\* run stays so): none is left waiting for ever
EveryGoroutineRuns == []<>(\A n \in DOMAIN gos : gos[n].done)

\* C6: a callback registered with WatchWithCallback(k, cb) before a Set(k, x)
\* takes the lock is eventually invoked exactly once for that Set, as cb(k, x);
\* n Sets give n invocations, one with each value, the value being the one of
\* the Set and not the one found when the callback runs.
C6_OneCallbackPerSet == []OncePerSet /\ []CountPerCallback /\ EveryGoroutineRuns

\* two Sets of K found cb registered; both invocations have run, and the first
\* carries a value the tree no longer holds
C6_Witness ==
    \E x, y \in sets : \E cb \in x.cbs[K] \cap y.cbs[K] :
        /\ x.key = K /\ y.key = K /\ x # y
        /\ \A n \in StartedFor(x, cb) \cup StartedFor(y, cb) : gos[n].done
        /\ \E n \in StartedFor(x, cb) : gos[n].val # getValue(heap, accs[1].data, K)

\* the Set that started goroutine n has run its `go` statements and not yet
\* released c.mu
StarterHoldsLock(n) ==
    LET t == gos[n].by[1]
    IN th[t].pc = "unlock" /\ th[t].calls + 1 = gos[n].by[2] /\ mu.w = t

\* C12: no callback begins executing while the Set that triggered it still
\* holds the exclusive lock: every callback invocation starts after that Set
\* released the lock.
C12_CallbacksStartAfterUnlock ==
    \A n \in DOMAIN gos : gos[n].done => ~StarterHoldsLock(n)

-----------------------------------------------------------------------------
(* Callbacks that call back into the accessor.  `th` here holds every agent: *)
(* first the callers, then one entry per goroutine a Set started.           *)

\* how deep callbacks may Set in turn: a callback started by a caller's Set
\* may call Set, the callbacks that Set starts do not
MaxNest == 1
\* callers of Set beside the callbacks
MaxSetters == 1

Callers == 1..MaxSetters

\* what a callback does when it runs
Bodies == {"return", "hang", "Get", "Set", "Watch"}

Caller == [kind |-> "caller", pc |-> "idle", op |-> "none", key |-> <<>>, val |-> NIL,
           depth |-> 0, calls |-> 0, cb |-> 0, by |-> 0]

\* the goroutine of `go callback(key, value)`, started by agent `by`
Goroutine(r, by) ==
    [kind |-> "callback", pc |-> "new", op |-> "none", key |-> r.key, val |-> r.val,
     depth |-> th[by].depth + 1, calls |-> 0, cb |-> r.cb, by |-> by]

ReenterInit ==
    /\ LET r == Load(EmptyHeap, One("a", IntV(1)))
       IN /\ heap = r.h
          /\ accs = <<[Accessor(r.v, FALSE, Origin("new", 0, <<>>, FALSE))
                          EXCEPT !.watchCallbacks[<<"a">>] = <<1>>]>>
    /\ nextCb = 1
    /\ last = NoOp
    /\ nops = 0
    /\ crashed = FALSE
    /\ th \in {[t \in Callers |-> Caller]}
    /\ mu = [w |-> 0, r |-> {}]
    /\ gos = <<>>
    /\ sets = {}
    /\ MergeIdle
    /\ BindIdle
    /\ ConvIdle

Agents == DOMAIN th

\* a caller calls c.Set("a", v)
CallerSets(t) ==
    /\ t \in Callers
    /\ th[t].pc = "idle"
    /\ th[t].calls < MaxCalls
    /\ th' = [th EXCEPT ![t] = [@ EXCEPT !.pc = "lock", !.op = "Set", !.key = <<"a">>,
                                        !.val = IntV(10 * t + th[t].calls + 1)]]
    /\ UNCHANGED <<heap, mergeVars, bindVars, storeVars, mu, gos, sets, convVars>>

\* the scheduler runs a new goroutine: the callback returns at once, never
\* returns, or calls Get, Set or WatchWithCallback on the accessor
Schedule(n) ==
    /\ n \in Agents
    /\ th[n].pc = "new"
    /\ \E body \in Bodies :
          /\ body = "Set" => th[n].depth <= MaxNest
          /\ body = "Watch" =>
                nextCb + Cardinality({a \in Agents : th[a].op = "Watch" /\ th[a].pc # "done"})
                    < MaxCallbacks
          /\ th' = [th EXCEPT ![n] =
                      CASE body = "return" -> [@ EXCEPT !.pc = "done"]
                        [] body = "hang" -> [@ EXCEPT !.pc = "hung"]
                        [] body = "Get" -> [@ EXCEPT !.pc = "rlock", !.op = "Get", !.key = <<"a">>]
                        [] body = "Set" -> [@ EXCEPT !.pc = "lock", !.op = "Set", !.key = <<"b">>,
                                                      !.val = IntV(9)]
                        [] OTHER -> [@ EXCEPT !.pc = "lock", !.op = "Watch", !.key = <<"a">>]]
    /\ UNCHANGED <<heap, mergeVars, bindVars, storeVars, mu, gos, sets, convVars>>

\* c.mu.Lock() in Set and WatchWithCallback
Acquire(a) ==
    /\ a \in Agents
    /\ th[a].pc = "lock"
    /\ mu.w = 0 /\ mu.r = {}
    /\ mu' = [mu EXCEPT !.w = a]
    /\ th' = [th EXCEPT ![a].pc = "held"]
    /\ UNCHANGED <<heap, mergeVars, bindVars, storeVars, gos, sets, convVars>>

\* c.mu.RLock() in Get
AcquireShared(a) ==
    /\ a \in Agents
    /\ th[a].pc = "rlock"
    /\ mu.w = 0
    /\ mu' = [mu EXCEPT !.r = @ \cup {a}]
    /\ th' = [th EXCEPT ![a].pc = "rheld"]
    /\ UNCHANGED <<heap, mergeVars, bindVars, storeVars, gos, sets, convVars>>

\* Get under the read lock: getValue, RUnlock, return
GetRuns(a) ==
    /\ a \in Agents
    /\ th[a].pc = "rheld"
    /\ mu' = [mu EXCEPT !.r = @ \ {a}]
    /\ th' = [th EXCEPT ![a] = [@ EXCEPT !.pc = IF th[a].kind = "caller" THEN "idle" ELSE "done",
                                        !.val = getValue(heap, accs[1].data, th[a].key)]]
    /\ UNCHANGED <<heap, mergeVars, bindVars, storeVars, gos, sets, convVars>>

\* Set under the lock: setValue, then the `go` statements of
\* notifyChangeCallbacks and notifyWatchCallbacks
SetRuns(a) ==
    /\ a \in Agents
    /\ th[a].pc = "held"
    /\ th[a].op = "Set"
    /\ LET h1 == setValue(heap, accs[1].data.v, th[a].key, th[a].val)
           started == notifyWatchCallbacks(h1, accs[1])
       IN /\ heap' = h1
          /\ th' = [th EXCEPT ![a].pc = "unlock"]
                      \o [n \in DOMAIN started |-> Goroutine(started[n], a)]
    /\ UNCHANGED <<mergeVars, bindVars, storeVars, mu, gos, sets, convVars>>

\* WatchWithCallback under the lock: the callback is appended to the registry
WatchRuns(a) ==
    /\ a \in Agents
    /\ th[a].pc = "held"
    /\ th[a].op = "Watch"
    /\ accs' = [accs EXCEPT ![1].watchCallbacks[th[a].key] = Append(@, nextCb + 1)]
    /\ nextCb' = nextCb + 1
    /\ th' = [th EXCEPT ![a].pc = "unlock"]
    /\ UNCHANGED <<heap, mergeVars, bindVars, last, nops, crashed, mu, gos, sets, convVars>>

\* a plausible slip: Set waits for the callbacks it started before it returns
Release_AfterCallbacks(a) ==
    /\ a \in Agents
    /\ th[a].pc = "unlock"
    /\ \A n \in Agents : (th[n].kind = "callback" /\ th[n].by = a) => th[n].pc = "done"
    /\ mu' = [mu EXCEPT !.w = 0]
    /\ th' = [th EXCEPT ![a] = [@ EXCEPT !.pc = IF th[a].kind = "caller" THEN "idle" ELSE "done",
                                        !.calls = @ + 1]]
    /\ UNCHANGED <<heap, mergeVars, bindVars, storeVars, gos, sets, convVars>>

\* the deferred c.mu.Unlock(): Set and WatchWithCallback return, whatever the
\* goroutines started are doing
Release(a) ==
    /\ a \in Agents
    /\ th[a].pc = "unlock"
    /\ mu' = [mu EXCEPT !.w = 0]
    /\ th' = [th EXCEPT ![a] = [@ EXCEPT !.pc = IF th[a].kind = "caller" THEN "idle" ELSE "done",
                                        !.calls = @ + 1]]
    /\ UNCHANGED <<heap, mergeVars, bindVars, storeVars, gos, sets, convVars>>

\* a step of agent a
Advance(a) ==
    \/ CallerSets(a)
    \/ Schedule(a)
    \/ Acquire(a)
    \/ AcquireShared(a)
    \/ GetRuns(a)
    \/ SetRuns(a)
    \/ WatchRuns(a)
    \/ Release(a)

\* as many agents as the callers, their Sets and the Sets of callbacks can make
MaxAgents == MaxSetters + MaxSetters * MaxCalls * MaxCallbacks * (1 + MaxNest * MaxCallbacks)

ReenterNext == \E a \in 1..MaxAgents : Advance(a)

\* every agent that can take a step is given one; a callback that never
\* returns takes none
ReenterFair == \A a \in 1..MaxAgents : WF_vars(Advance(a))

SpecReenter == ReenterInit /\ [][ReenterNext]_vars /\ ReenterFair

\* no agent is inside a call: callers are between calls, callbacks have
\* returned or are the ones that never return
Settled == \A a \in Agents : th[a].pc \in {"idle", "done", "hung"}

\* every Set a caller makes returns
CallerSetsReturn == \A t \in Callers : (th[t].pc # "idle") ~> (th[t].pc = "idle")

\* C13: Set returns without waiting for the callbacks it dispatches: every Set
\* of a caller returns, also when a callback it started never returns; and a
\* callback that calls Get, Set or WatchWithCallback on the same accessor
\* gets through its call: again and again no agent is left inside a call.
C13_SetDoesNotWait == CallerSetsReturn /\ []<>Settled

\* the caller's Sets have returned; a callback one of them started never
\* returned, and a callback has itself called Set and returned from it
C13_Witness ==
    /\ \A t \in Callers : th[t].pc = "idle" /\ th[t].calls > 0
    /\ \E g, h \in Agents :
          /\ th[g].kind = "callback" /\ th[g].by \in Callers /\ th[g].pc = "hung"
          /\ th[h].kind = "callback" /\ th[h].by \in Callers /\ th[h].op = "Set"
          /\ th[h].pc = "done"

-----------------------------------------------------------------------------
(* confy.go: which lock is held at each access of a map of the tree *)

\* the calls the concurrent callers make here; no callback is registered, so
\* the notify loops of Set start nothing
RaceOps == {"Get", "Set", "IsSet", "GetStringMap", "Sub"}
RaceKeys == {<<"a">>, <<"b">>, <<"a", "b">>}

RaceIdle == [pc |-> "idle", op |-> "none", acc |-> 0, key |-> <<>>, val |-> NIL, calls |-> 0]

\* one accessor over {a: {b: 1}}; mu holds one lock for each accessor, since
\* every ConfyImpl has its own c.mu
RaceInit ==
    /\ LET r == Load(EmptyHeap, One("a", One("b", IntV(1))))
       IN /\ heap = r.h
          /\ accs = <<Accessor(r.v, FALSE, Origin("new", 0, <<>>, FALSE))>>
    /\ nextCb = 0
    /\ last = NoOp
    /\ nops = 0
    /\ crashed = FALSE
    /\ th = [t \in Threads |-> RaceIdle]
    /\ mu = <<[w |-> 0, r |-> {}]>>
    /\ gos = <<>>
    /\ sets = {}
    /\ MergeIdle
    /\ BindIdle
    /\ ConvIdle

\* the maps getValue indexes on its way along the key
RECURSIVE readsOf(_, _, _)
readsOf(h, current, keys) ==
    IF keys = <<>> \/ ~IsMap(h, current) THEN {}
    ELSE {current.v} \cup readsOf(h, Index(h, current.v, Head(keys)), Tail(keys))

\* the map of the tree setValue assigns into: the last map of the walk, or
\* the one in which it has to put a new map
RECURSIVE writeOf(_, _, _)
writeOf(h, current, keys) ==
    IF Len(keys) = 1 THEN current
    ELSE IF IsMap(h, Index(h, current, Head(keys)))
         THEN writeOf(h, h[current].m[Head(keys)].v, Tail(keys))
         ELSE current

\* what the values the callers hold and the accessors keep alive
RaceRoots(as, ths) == {as[i].data : i \in DOMAIN as} \cup {ths[t].val : t \in DOMAIN ths}

\* a caller calls an operation of one of the accessors
RaceCall(t) ==
    /\ th[t].pc = "idle"
    /\ th[t].calls < MaxCalls
    /\ \E op \in RaceOps, i \in DOMAIN accs, key \in RaceKeys :
          /\ op = "Sub" => Len(accs) < MaxAccs
          /\ th' = [th EXCEPT ![t] = [@ EXCEPT !.pc = IF op = "Set" THEN "lock" ELSE "rlock",
                                            !.op = op, !.acc = i, !.key = key,
                                            !.val = IF op = "Set" THEN IntV(10 * t + th[t].calls + 1)
                                                    ELSE NIL]]
    /\ UNCHANGED <<heap, mergeVars, bindVars, storeVars, mu, gos, sets, convVars>>

\* c.mu.Lock() in Set
RaceLock(t) ==
    /\ th[t].pc = "lock"
    /\ mu[th[t].acc].w = 0 /\ mu[th[t].acc].r = {}
    /\ mu' = [mu EXCEPT ![th[t].acc].w = t]
    /\ th' = [th EXCEPT ![t].pc = "held"]
    /\ UNCHANGED <<heap, mergeVars, bindVars, storeVars, gos, sets, convVars>>

\* c.mu.RLock() in Get
RaceRLock(t) ==
    /\ th[t].pc = "rlock"
    /\ mu[th[t].acc].w = 0
    /\ mu' = [mu EXCEPT ![th[t].acc].r = @ \cup {t}]
    /\ th' = [th EXCEPT ![t].pc = "rheld"]
    /\ UNCHANGED <<heap, mergeVars, bindVars, storeVars, gos, sets, convVars>>

\* Set under c.mu: getValue, setValue, the two notify loops, the deferred Unlock
RaceSet(t) ==
    /\ th[t].pc = "held"
    /\ LET i == th[t].acc
           ths == [th EXCEPT ![t] = [@ EXCEPT !.pc = "idle", !.val = NIL, !.calls = @ + 1]]
       IN /\ heap' = Collect(setValue(heap, accs[i].data.v, th[t].key, th[t].val),
                             RaceRoots(accs, ths))
          /\ mu' = [mu EXCEPT ![i].w = 0]
          /\ th' = ths
    /\ UNCHANGED <<mergeVars, bindVars, storeVars, gos, sets, convVars>>

\* Get under c.mu.RLock(): getValue and the deferred RUnlock.  Get itself
\* and a value that is no map end the call; Sub (through GetSection) makes the
\* new accessor around the map fetched, or around a new map; IsSet and
\* GetStringMap go on to look into the map fetched
RaceGet(t) ==
    /\ th[t].pc = "rheld"
    /\ LET i == th[t].acc
           value == getValue(heap, accs[i].data, th[t].key)
           isMap == IsMap(heap, value)
           inspects == th[t].op \in {"IsSet", "GetStringMap"} /\ isMap
           made == th[t].op = "Sub" /\ ~isMap
           subData == IF made THEN Ref(Alloc(heap)) ELSE value
       IN /\ mu' = IF th[t].op = "Sub"
                   THEN Append([mu EXCEPT ![i].r = @ \ {t}], [w |-> 0, r |-> {}])
                   ELSE [mu EXCEPT ![i].r = @ \ {t}]
          /\ accs' = IF th[t].op = "Sub"
                     THEN Append(accs, Accessor(subData, FALSE, Origin("sub", i, th[t].key, isMap)))
                     ELSE accs
          /\ heap' = IF made THEN [heap EXCEPT ![Alloc(heap)] = MapNode(EmptyM)] ELSE heap
          /\ th' = [th EXCEPT ![t] = IF inspects
                                     THEN [@ EXCEPT !.pc = "inspect", !.val = value]
                                     ELSE [@ EXCEPT !.pc = "idle", !.calls = @ + 1]]
    /\ UNCHANGED <<mergeVars, bindVars, nextCb, last, nops, crashed, gos, sets, convVars>>

\* len(v) in IsSet, `for k, val := range v` in GetStringMap: the map fetched
\* is read after Get has returned
RaceInspect(t) ==
    /\ th[t].pc = "inspect"
    /\ LET ths == [th EXCEPT ![t] = [@ EXCEPT !.pc = "idle", !.val = NIL, !.calls = @ + 1]]
       IN /\ th' = ths
          /\ heap' = Collect(heap, RaceRoots(accs, ths))
    /\ UNCHANGED <<mergeVars, bindVars, storeVars, mu, gos, sets, convVars>>

RaceNext ==
    \E t \in Threads :
        \/ RaceCall(t)
        \/ RaceLock(t)
        \/ RaceRLock(t)
        \/ RaceSet(t)
        \/ RaceGet(t)
        \/ RaceInspect(t)

SpecRace == RaceInit /\ [][RaceNext]_vars

\* the maps the next step of caller t reads and writes
Reads(t) ==
    CASE th[t].pc \in {"held", "rheld"} -> readsOf(heap, accs[th[t].acc].data, th[t].key)
      [] th[t].pc = "inspect" -> {th[t].val.v}
      [] OTHER -> {}

Writes(t) ==
    IF th[t].pc = "held" THEN {writeOf(heap, accs[th[t].acc].data.v, th[t].key)} ELSE {}

\* the accessors whose tree holds map n
Holders(n) == {i \in DOMAIN accs : n \in Reach(heap, accs[i].data)}

\* C15: every read or write of a map of a live tree is made under the lock
\* guarding it, shared for a read and exclusive for a write, so no two
\* callers are ever about to access the same map with one of them writing it:
\* writes through an accessor Sub returned and the look IsSet and
\* GetStringMap take at the map they fetched included.
C15_AccessesUnderLock ==
    \A t \in Threads :
        /\ \A n \in Reads(t) \cup Writes(t) :
              \A i \in Holders(n) : mu[i].w = t \/ t \in mu[i].r
        /\ \A u \in Threads \ {t} : Writes(t) \cap (Reads(u) \cup Writes(u)) = {}

-----------------------------------------------------------------------------
(* internal/errors.go: the type converter *)

\* a Go string is the sequence of its characters, written "1KB" as <<"1", "K", "B">>
StrV(s) == [t |-> "str", v |-> s]

\* the integer types told apart: two narrow widths of each signedness, and
\* int / uint, whose 64 bits no value drawn here exceeds
IntTypes == {"int", "int8", "int16", "uint", "uint8", "uint16"}
SignedTypes == {"int", "int8", "int16"}
UnsignedTypes == IntTypes \ SignedTypes
Bits(ty) == CASE ty \in {"int8", "uint8"} -> 8
              [] ty \in {"int16", "uint16"} -> 16
              [] OTHER -> 64
NumV(ty, n) == [t |-> ty, v |-> n]
FloatV(halves) == [t |-> "float64", v |-> halves]
\* a time.Duration, counted in half seconds
DurationV(halves) == [t |-> "duration", v |-> halves]

RECURSIVE Pow(_, _)
Pow(b, e) == IF e = 0 THEN 1 ELSE b * Pow(b, e - 1)

\* the Go conversion T(v) between integer types: the low bits of v, read as
\* two's complement when T is signed
Convert(ty, n) ==
    IF Bits(ty) = 64 THEN n
    ELSE LET m == Pow(2, Bits(ty))
             low == n % m
         IN IF ty \in SignedTypes /\ low >= m \div 2 THEN low - m ELSE low

\* the Go conversion T(v) from a float: the fraction is dropped, towards zero
Truncate(halves) == IF halves >= 0 THEN halves \div 2 ELSE -((-halves) \div 2)

Digits == <<"0", "1", "2", "3", "4", "5", "6", "7", "8", "9">>
IsDigit(c) == \E d \in 1..10 : Digits[d] = c
DigitVal(c) == (CHOOSE d \in 1..10 : Digits[d] = c) - 1

RECURSIVE DigitsVal(_, _)
DigitsVal(s, acc) == IF s = <<>> THEN acc ELSE DigitsVal(Tail(s), 10 * acc + DigitVal(Head(s)))

Fails == [ok |-> FALSE, v |-> 0]
Yields(v) == [ok |-> TRUE, v |-> v]

\* strconv.ParseUint(s, 10, 64): digits only, at least one
ParseUint(s) ==
    IF s # <<>> /\ \A i \in 1..Len(s) : IsDigit(s[i]) THEN Yields(DigitsVal(s, 0)) ELSE Fails

\* strconv.ParseInt(s, 10, 64): an optional sign, then digits
ParseInt(s) ==
    IF s = <<>> THEN Fails
    ELSE IF Head(s) = "-"
         THEN IF ParseUint(Tail(s)).ok THEN Yields(-ParseUint(Tail(s)).v) ELSE Fails
    ELSE IF Head(s) = "+" THEN ParseUint(Tail(s))
    ELSE ParseUint(s)

\* a plausible slip: a value the target cannot hold is refused
convertToInt_Checked(ty, value) ==
    IF value.t \in IntTypes
    THEN IF Convert(ty, value.v) = value.v THEN Yields(value.v) ELSE Fails
    ELSE Fails

\* convertToInt[T]: any integer or float converted by T(v), a bool as 0 or 1,
\* a string parsed; nil and everything else an error
convertToInt(ty, value) ==
    IF value.t \in IntTypes THEN Yields(Convert(ty, value.v))
    ELSE IF value.t = "float64" THEN Yields(Convert(ty, Truncate(value.v)))
    ELSE IF value.t = "bool" THEN Yields(IF value.v THEN 1 ELSE 0)
    ELSE IF value.t = "str"
         THEN IF ParseInt(value.v).ok THEN Yields(Convert(ty, ParseInt(value.v).v)) ELSE Fails
    ELSE Fails

\* convertToUint[T]: as convertToInt, a negative signed or float value an
\* error, a string parsed without a sign
convertToUint(ty, value) ==
    IF value.t \in SignedTypes
    THEN IF value.v < 0 THEN Fails ELSE Yields(Convert(ty, value.v))
    ELSE IF value.t \in UnsignedTypes THEN Yields(Convert(ty, value.v))
    ELSE IF value.t = "float64"
         THEN IF value.v < 0 THEN Fails ELSE Yields(Convert(ty, Truncate(value.v)))
    ELSE IF value.t = "bool" THEN Yields(IF value.v THEN 1 ELSE 0)
    ELSE IF value.t = "str"
         THEN IF ParseUint(value.v).ok THEN Yields(Convert(ty, ParseUint(value.v).v)) ELSE Fails
    ELSE Fails

\* converter.ToInt64
ToInt64(value) == convertToInt("int", value)

\* fmt's %d
RECURSIVE Itoa(_)
Itoa(n) == IF n < 10 THEN <<Digits[n + 1]>> ELSE Itoa(n \div 10) \o <<Digits[(n % 10) + 1]>>
FormatInt(n) == IF n < 0 THEN <<"-">> \o Itoa(-n) ELSE Itoa(n)

\* fmt's %v of a float64 given in halves: 3 as "1.5", 4 as "2"
FormatFloat(halves) ==
    LET whole == IF halves >= 0 THEN halves \div 2 ELSE (-halves) \div 2
        sign == IF halves < 0 THEN <<"-">> ELSE <<>>
    IN sign \o Itoa(whole) \o (IF halves % 2 = 1 THEN <<".", "5">> ELSE <<>>)

\* time.Duration.String() for durations below a minute, given in half seconds:
\* "0s", "500ms", "1.5s", "5s"
FormatDuration(halves) ==
    IF halves = 1 THEN <<"5", "0", "0", "m", "s">>
    ELSE IF halves = -1 THEN <<"-", "5", "0", "0", "m", "s">>
    ELSE FormatFloat(halves) \o <<"s">>

Join(ss, sep) ==
    LET RECURSIVE J(_)
        J(i) == IF i > Len(ss) THEN <<>>
                ELSE (IF i > 1 THEN sep ELSE <<>>) \o ss[i] \o J(i + 1)
    IN J(1)

\* fmt.Sprintf("%v", v) for the values a tree holds: "<nil>", "map[a:1 b:x]",
\* "[1 2]" (v acyclic)
RECURSIVE Sprint(_, _)
Sprint(h, value) ==
    CASE value.t = "nil" -> <<"<", "n", "i", "l", ">">>
      [] value.t = "str" -> value.v
      [] value.t \in IntTypes -> FormatInt(value.v)
      [] value.t = "float64" -> FormatFloat(value.v)
      [] value.t = "bool" -> IF value.v THEN <<"t", "r", "u", "e">> ELSE <<"f", "a", "l", "s", "e">>
      [] value.t = "duration" -> FormatDuration(value.v)
      [] IsMap(h, value) ->
            LET present == SelectSeq(KeySeq, LAMBDA k : h[value.v].m[k] # ABSENT)
                entry == [i \in 1..Len(present) |->
                             <<present[i], ":">> \o Sprint(h, h[value.v].m[present[i]])]
            IN <<"m", "a", "p", "[">> \o Join(entry, <<" ">>) \o <<"]">>
      [] IsSlice(h, value) ->
            <<"[">> \o Join([i \in 1..Len(h[value.v].s) |-> Sprint(h, h[value.v].s[i])], <<" ">>)
                \o <<"]">>
      [] OTHER -> <<"?">>

\* converter.ToString (TLC has a ToString of its own): never fails
tcToString(h, value) == IF value = NIL THEN <<>> ELSE Sprint(h, value)

\* strconv.ParseBool
ParseBool(s) ==
    IF s \in {<<"1">>, <<"t">>, <<"T">>, <<"t", "r", "u", "e">>, <<"T", "R", "U", "E">>,
              <<"T", "r", "u", "e">>} THEN Yields(TRUE)
    ELSE IF s \in {<<"0">>, <<"f">>, <<"F">>, <<"f", "a", "l", "s", "e">>,
                   <<"F", "A", "L", "S", "E">>, <<"F", "a", "l", "s", "e">>} THEN Yields(FALSE)
    ELSE Fails

\* converter.ToBool: a bool as it is, a number by being non-zero, a string by
\* ParseBool and then the table of aliases
ToBool(value) ==
    IF value.t = "bool" THEN Yields(value.v)
    ELSE IF value.t \in IntTypes \cup {"float64"} THEN Yields(value.v # 0)
    ELSE IF value.t = "str"
         THEN IF ParseBool(value.v).ok THEN ParseBool(value.v)
              ELSE IF value.v \in {<<"y", "e", "s">>, <<"y">>, <<"o", "n">>, <<"1">>}
                   THEN Yields(TRUE)
              ELSE IF value.v \in {<<"n", "o">>, <<"n">>, <<"o", "f", "f">>, <<"0">>, <<>>}
                   THEN Yields(FALSE)
              ELSE Fails
    ELSE Fails

\* the leading digits of s, and what follows them
RECURSIVE LeadingDigits(_)
LeadingDigits(s) ==
    IF s = <<>> \/ ~IsDigit(Head(s)) THEN <<>> ELSE <<Head(s)>> \o LeadingDigits(Tail(s))
AfterDigits(s) == SubSeq(s, Len(LeadingDigits(s)) + 1, Len(s))

\* a decimal number num / den read off the front of s (digits, then
\* optionally a point and digits), and the rest of s; ok when a digit was read
Decimal(s) ==
    LET int == LeadingDigits(s)
        r1 == AfterDigits(s)
        point == r1 # <<>> /\ Head(r1) = "."
        frac == IF point THEN LeadingDigits(Tail(r1)) ELSE <<>>
        rest == IF point THEN AfterDigits(Tail(r1)) ELSE r1
    IN [ok |-> int \o frac # <<>>,
        num |-> DigitsVal(int \o frac, 0),
        den |-> Pow(10, Len(frac)),
        rest |-> rest]

\* strconv.ParseFloat(s, 64) for plain decimals: an optional sign, digits, an
\* optional fraction, and nothing after them
ParseFloat(s) ==
    LET signed == s # <<>> /\ Head(s) \in {"-", "+"}
        d == Decimal(IF signed THEN Tail(s) ELSE s)
    IN IF d.ok /\ d.rest = <<>>
       THEN [ok |-> TRUE, num |-> IF signed /\ Head(s) = "-" THEN -d.num ELSE d.num, den |-> d.den]
       ELSE [ok |-> FALSE, num |-> 0, den |-> 1]

\* the units of time.ParseDuration that are multiples of a millisecond, in
\* milliseconds
DurationUnits == {<<"m", "s">>, <<"s">>, <<"m">>, <<"h">>}
UnitMillis(u) == CASE u = <<"m", "s">> -> 1
                   [] u = <<"s">> -> 1000
                   [] u = <<"m">> -> 60000
                   [] OTHER -> 3600000

\* the letters at the front of s
RECURSIVE LeadingUnit(_)
LeadingUnit(s) ==
    IF s = <<>> \/ IsDigit(Head(s)) \/ Head(s) = "." THEN <<>>
    ELSE <<Head(s)>> \o LeadingUnit(Tail(s))

\* time.ParseDuration after the sign: one or more of <decimal><unit>, summed
\* (in milliseconds)
RECURSIVE durationGroups(_, _)
durationGroups(s, acc) ==
    IF s = <<>> THEN Yields(acc)
    ELSE LET d == Decimal(s)
             u == LeadingUnit(d.rest)
         IN IF ~d.ok \/ u \notin DurationUnits THEN Fails
            ELSE durationGroups(SubSeq(d.rest, Len(u) + 1, Len(d.rest)),
                                acc + (d.num * UnitMillis(u)) \div d.den)

\* time.ParseDuration: "0" is zero, otherwise [sign] groups; in milliseconds
ParseDuration(s) ==
    LET signed == s # <<>> /\ Head(s) \in {"-", "+"}
        body == IF signed THEN Tail(s) ELSE s
        r == durationGroups(body, 0)
    IN IF body = <<"0">> THEN Yields(0)
       ELSE IF body = <<>> \/ ~r.ok THEN Fails
       ELSE Yields(IF signed /\ Head(s) = "-" THEN -r.v ELSE r.v)

\* converter.ToDuration: a duration as it is, an integer or float as seconds,
\* a string parsed (the strings drawn are multiples of half a second)
ToDuration(value) ==
    IF value.t = "duration" THEN Yields(value.v)
    ELSE IF value.t \in IntTypes THEN Yields(2 * value.v)
    ELSE IF value.t = "float64" THEN Yields(value.v)
    ELSE IF value.t = "str"
         THEN IF ParseDuration(value.v).ok THEN Yields(ParseDuration(value.v).v \div 500)
              ELSE Fails
    ELSE Fails

\* the unit table of parseSizeString, up to the multipliers that fit 32 bits
SizeUnits == {<<"B">>, <<"K", "B">>, <<"M", "B">>, <<"K">>, <<"M">>}
Multiplier(u) == CASE u = <<"B">> -> 1
                   [] u = <<"K", "B">> -> 1024
                   [] u = <<"M", "B">> -> 1024 * 1024
                   [] u = <<"K">> -> 1000
                   [] OTHER -> 1000 * 1000

\* the orders in which `range units` can enumerate the table
UnitOrders == {o \in [1..Cardinality(SizeUnits) -> SizeUnits] :
                  \A i, j \in DOMAIN o : o[i] = o[j] => i = j}

LowerLetters == <<"a", "b", "c", "d", "e", "f", "g", "h", "i", "j", "k", "l", "m",
                  "n", "o", "p", "q", "r", "s", "t", "u", "v", "w", "x", "y", "z">>
UpperLetters == <<"A", "B", "C", "D", "E", "F", "G", "H", "I", "J", "K", "L", "M",
                  "N", "O", "P", "Q", "R", "S", "T", "U", "V", "W", "X", "Y", "Z">>
\* strings.ToUpper
ToUpper(s) ==
    [i \in 1..Len(s) |->
        IF \E n \in 1..26 : LowerLetters[n] = s[i]
        THEN UpperLetters[CHOOSE n \in 1..26 : LowerLetters[n] = s[i]]
        ELSE s[i]]

\* strings.TrimSpace
RECURSIVE TrimLeft(_), TrimRight(_)
TrimLeft(s) == IF s # <<>> /\ Head(s) = " " THEN TrimLeft(Tail(s)) ELSE s
TrimRight(s) == IF s # <<>> /\ s[Len(s)] = " " THEN TrimRight(SubSeq(s, 1, Len(s) - 1)) ELSE s
TrimSpace(s) == TrimRight(TrimLeft(s))

HasSuffix(s, u) == Len(s) >= Len(u) /\ SubSeq(s, Len(s) - Len(u) + 1, Len(s)) = u
TrimSuffix(s, u) == IF HasSuffix(s, u) THEN SubSeq(s, 1, Len(s) - Len(u)) ELSE s

\* parseSizeString, the table enumerated in `order`: the first unit met that
\* ends the string decides; without one the string is a plain number.  A
\* negative product converts to uint64 in a way Go leaves to the
\* implementation; it is kept as the negative number.
parseSizeString(str, order) ==
    LET s == TrimSpace(ToUpper(str))
        hits == SelectSeq(order, LAMBDA u : HasSuffix(s, u))
    IN IF s = <<>> THEN Fails
       ELSE IF hits # <<>>
            THEN LET unit == hits[1]
                     number == ParseFloat(TrimSpace(TrimSuffix(s, unit)))
                 IN IF ~number.ok THEN Fails
                    ELSE Yields((number.num * Multiplier(unit)) \div number.den)
       ELSE ParseUint(s)

\* converter.ToSizeInBytes: uint and uint64 as they are, int and int64 when
\* not negative, a string parsed; everything else an error
ToSizeInBytes(value, order) ==
    IF value.t = "uint" THEN Yields(value.v)
    ELSE IF value.t = "int" THEN IF value.v < 0 THEN Fails ELSE Yields(value.v)
    ELSE IF value.t = "str" THEN parseSizeString(value.v, order)
    ELSE Fails

\* converter.ToIntSlice for a []any: every element by ToInt, one failure
\* failing the whole
ToIntSlice(h, value) ==
    IF IsSlice(h, value)
    THEN LET items == h[value.v].s
         IN IF \A i \in 1..Len(items) : convertToInt("int", items[i]).ok
            THEN Yields([i \in 1..Len(items) |-> convertToInt("int", items[i]).v])
            ELSE Fails
    ELSE Fails

\* converter.ToStringSlice: a []any element by element through ToString, a
\* single string as a slice of one
ToStringSlice(h, value) ==
    IF IsSlice(h, value)
    THEN Yields([i \in 1..Len(h[value.v].s) |-> tcToString(h, h[value.v].s[i])])
    ELSE IF value.t = "str" THEN Yields(<<value.v>>)
    ELSE Fails

-----------------------------------------------------------------------------
(* confy.go: binding a tree to a record *)

\* a field of a record type: its Kind(), its Type(), its `default:"..."` tag,
\* its own fields, its `yaml` and `json` tags ("" when the field has none)
IntField(default) ==
    [kind |-> "int", type |-> "int", default |-> default, fields |-> <<>>, yaml |-> "",
     json |-> ""]
StructField(fields) ==
    [kind |-> "struct", type |-> "struct", default |-> <<>>, fields |-> fields, yaml |-> "",
     json |-> ""]
\* a time.Duration field: its Kind() is that of an int64
DurationField == [IntField(<<>>) EXCEPT !.type = "Duration"]

\* the int64 behind a time.Duration, a count of nanoseconds, kept as the half
\* seconds in it and the nanoseconds beyond them
Nanos(n) == [halves |-> n \div 500000000, ns |-> n % 500000000]
HalfSeconds(halves) == [halves |-> halves, ns |-> 0]

\* field.SetInt(n)
SetInt(ft, n) == IF ft.type = "Duration" THEN Nanos(n) ELSE n
Tagged(ft, yaml, json) == [ft EXCEPT !.yaml = yaml, !.json = json]

\* the Go identifiers of the two fields of a record type
FieldNames == [a |-> "A", b |-> "B"]

\* the record type bound into:
\*   struct { A int `yaml:"a" default:"7"`
\*            B struct { A int `yaml:"a" default:"8"`; B int `yaml:"b"` } `yaml:"b"` }
TargetType ==
    StructField([a |-> Tagged(IntField(<<"7">>), "a", ""),
                 b |-> Tagged(StructField([a |-> Tagged(IntField(<<"8">>), "a", ""),
                                           b |-> Tagged(IntField(<<>>), "b", "")]), "b", "")])

\* the zero value of a field
RECURSIVE ZeroOf(_)
ZeroOf(ft) == IF ft.kind = "int" THEN SetInt(ft, 0) ELSE [k \in Keys |-> ZeroOf(ft.fields[k])]

\* field.IsZero()
IsZero(ft, fv) == fv = ZeroOf(ft)

\* field.Interface(): an int, or the struct as an opaque value
Interface(ft, fv) == IF ft.kind = "int" THEN IntV(fv) ELSE [t |-> "struct", v |-> fv]

\* structToMap, for a record whose fields all have a yaml key: every field
\* under its key, zero or not; a nested record as a tree
RECURSIVE structToMap(_, _)
structToMap(st, sv) ==
    ATree([k \in Keys |-> IF st.fields[k].kind = "struct"
                          THEN structToMap(st.fields[k], sv[k])
                          ELSE IntV(sv[k])])

\* field.Tag.Get(ns); the record types here carry yaml and json tags only
TagGet(ft, ns) == IF ns = "yaml" THEN ft.yaml ELSE IF ns = "json" THEN ft.json ELSE ""

\* getFieldName: the yaml tag, else the json tag, else the config tag, else
\* the identifier; an empty tag and "-" both pass on to the next one (the tags
\* here hold no comma, so strings.Split(tag, ",")[0] is the tag)
getFieldName(k, ft) ==
    IF TagGet(ft, "yaml") # "" /\ TagGet(ft, "yaml") # "-" THEN TagGet(ft, "yaml")
    ELSE IF TagGet(ft, "json") # "" /\ TagGet(ft, "json") # "-" THEN TagGet(ft, "json")
    ELSE IF TagGet(ft, "config") # "" /\ TagGet(ft, "config") # "-" THEN TagGet(ft, "config")
    ELSE FieldNames[k]

\* getFieldNameWithOptions: the tag of options.TagName first
getFieldNameWithOptions(k, ft, options) ==
    LET tagName == IF options.TagName = "" THEN "yaml" ELSE options.TagName
    IN IF TagGet(ft, tagName) # "" /\ TagGet(ft, tagName) # "-" THEN TagGet(ft, tagName)
       ELSE IF tagName # "yaml" /\ TagGet(ft, "yaml") # "" /\ TagGet(ft, "yaml") # "-"
            THEN TagGet(ft, "yaml")
       ELSE IF tagName # "json" /\ TagGet(ft, "json") # "" /\ TagGet(ft, "json") # "-"
            THEN TagGet(ft, "json")
       ELSE FieldNames[k]

\* strings.ToLower on the names and keys used here
ToLower(s) == IF s = "A" THEN "a" ELSE IF s = "B" THEN "b" ELSE s

\* mapValue.MapIndex(fieldName): ABSENT stands for the invalid Value
MapIndex(h, mapValue, fieldName) ==
    IF fieldName \in Keys THEN h[mapValue.v].m[fieldName] ELSE ABSENT

\* findMapValueIgnoreCase: the entry whose key equals the name once both are
\* lowered (the keys of the trees here are lower case, so at most one does)
findMapValueIgnoreCase(h, mapValue, fieldName) ==
    LET ks == {k \in Keys : h[mapValue.v].m[k] # ABSENT /\ ToLower(k) = ToLower(fieldName)}
    IN IF ks = {} THEN ABSENT ELSE h[mapValue.v].m[CHOOSE k \in ks : TRUE]

\* setDefaultValue for an int field (the literals of the types here all
\* parse): a time.Duration field takes the tag as time.ParseDuration reads it
setDefaultValue(ft, fv, defaultTag) ==
    IF ft.type = "Duration"
    THEN IF ParseDuration(defaultTag).ok
         THEN HalfSeconds(ParseDuration(defaultTag).v \div 500) ELSE fv
    ELSE IF ft.kind = "int" /\ ParseInt(defaultTag).ok THEN ParseInt(defaultTag).v ELSE fv

\* applyStructDefaults: the tag default for a field that is zero; a field
\* without the tag is descended into when it is a struct
RECURSIVE applyStructDefaults(_, _)
applyStructDefaults(st, sv) ==
    [k \in Keys |->
        LET ft == st.fields[k]
        IN IF ft.default = <<>> \/ ft.default = <<"-">>
           THEN IF ft.kind = "struct" THEN applyStructDefaults(ft, sv[k]) ELSE sv[k]
           ELSE IF ~IsZero(ft, sv[k]) THEN sv[k]
           ELSE setDefaultValue(ft, sv[k], ft.default)]

\* a plausible slip: the default is merged over the configuration value
deepMergeValues_DefaultWins(h, defaultValue, configValue) ==
    IF configValue = NIL THEN [h |-> h, v |-> defaultValue]
    ELSE IF defaultValue = NIL THEN [h |-> h, v |-> configValue]
    ELSE IF IsMap(h, defaultValue) /\ IsMap(h, configValue)
    THEN DeepMerge(h, configValue, defaultValue)
    ELSE [h |-> h, v |-> defaultValue]

\* deepMergeValues(defaultValue, configValue)
deepMergeValues(h, defaultValue, configValue) ==
    IF configValue = NIL THEN [h |-> h, v |-> defaultValue]
    ELSE IF defaultValue = NIL THEN [h |-> h, v |-> configValue]
    ELSE IF IsMap(h, defaultValue) /\ IsMap(h, configValue)
    THEN DeepMerge(h, defaultValue, configValue)
    ELSE [h |-> h, v |-> configValue]

\* what binding into a record or a field returns: the error, and the record
\* or field as the call left it
Bound(v) == [err |-> FALSE, v |-> v]
Failed(v) == [err |-> TRUE, v |-> v]

\* the record with field k as a call left it, and the call's error
InField(sv, k, r) == [err |-> r.err, v |-> [sv EXCEPT ![k] = r.v]]

RECURSIVE bindMapToStruct(_, _, _, _), bindFields(_, _, _, _, _), bindField(_, _, _, _, _),
          setFieldValue(_, _, _, _)

\* bindMapToStruct (Bind): the tag defaults, then the fields in their order;
\* no field of the types here is tagged required
bindMapToStruct(h, mapValue, st, sv) ==
    bindFields(h, mapValue, st, Bound(applyStructDefaults(st, sv)), 1)

\* the loop of bindMapToStruct from field n on, r being what the turn for
\* the field before returned: an error ends the loop
bindFields(h, mapValue, st, r, n) ==
    IF r.err \/ n > Len(KeySeq) THEN r
    ELSE bindFields(h, mapValue, st, bindField(h, mapValue, st, r.v, KeySeq[n]), n + 1)

\* one turn of the loop: a field whose key the map lacks keeps its value
bindField(h, mapValue, st, sv, k) ==
    IF MapIndex(h, mapValue, getFieldName(k, st.fields[k])) = ABSENT THEN Bound(sv)
    ELSE InField(sv, k, setFieldValue(h, st.fields[k], sv[k],
                                      MapIndex(h, mapValue, getFieldName(k, st.fields[k]))))

\* setFieldValue, for int and struct fields: a value that does not convert
\* leaves the field as it is; a time.Duration field is set by ToDuration
setFieldValue(h, ft, fv, value) ==
    IF ft.kind = "int"
    THEN IF ft.type = "Duration"
         THEN IF ToDuration(value).ok THEN Bound(HalfSeconds(ToDuration(value).v)) ELSE Bound(fv)
         ELSE IF ToInt64(value).ok THEN Bound(ToInt64(value).v) ELSE Bound(fv)
    ELSE IF IsMap(h, value) THEN bindMapToStruct(h, value, ft, fv) ELSE Bound(fv)

RECURSIVE bindMapToStructWithOptions(_, _, _, _, _), bindFieldsWithOptions(_, _, _, _, _, _),
          bindFieldWithOptions(_, _, _, _, _, _), setFieldValueWithDeepMerge(_, _, _, _, _),
          mergeStructValue(_, _, _, _, _)

\* bindMapToStructWithOptions: the fields in their order; options.Required is
\* empty in every call made here
bindMapToStructWithOptions(h, mapValue, st, sv, options) ==
    bindFieldsWithOptions(h, mapValue, st, Bound(sv), options, 1)

\* the loop of bindMapToStructWithOptions from field n on, r being what the
\* turn for the field before returned: an error ends the loop
bindFieldsWithOptions(h, mapValue, st, r, options, n) ==
    IF r.err \/ n > Len(KeySeq) THEN r
    ELSE bindFieldsWithOptions(h, mapValue, st,
                               bindFieldWithOptions(h, mapValue, st, r.v, options, KeySeq[n]),
                               options, n + 1)

\* the entry the field is bound from; ABSENT stands for the invalid Value
mapValOf(h, mapValue, fieldName, options) ==
    IF options.IgnoreCase THEN findMapValueIgnoreCase(h, mapValue, fieldName)
    ELSE MapIndex(h, mapValue, fieldName)

\* one turn of the loop: a field whose key the map lacks keeps its value
bindFieldWithOptions(h, mapValue, st, sv, options, k) ==
    IF mapValOf(h, mapValue, getFieldNameWithOptions(k, st.fields[k], options), options) = ABSENT
    THEN Bound(sv)
    ELSE InField(sv, k,
                 setFieldValueWithDeepMerge(
                     h, st.fields[k], sv[k],
                     mapValOf(h, mapValue, getFieldNameWithOptions(k, st.fields[k], options),
                              options),
                     options))

\* setFieldValueWithDeepMerge, for int and struct fields: a value that does
\* not convert leaves the field as it is, and is an error with ErrorOnMissing
setFieldValueWithDeepMerge(h, ft, fv, value, options) ==
    IF ft.kind = "int"
    THEN IF ToInt64(value).ok THEN Bound(SetInt(ft, ToInt64(value).v))
         ELSE IF ~options.ErrorOnMissing THEN Bound(fv)
         ELSE Failed(fv)
    ELSE IF IsMap(h, value)
         THEN IF options.DeepMerge /\ ~IsZero(ft, fv)
              THEN mergeStructValue(h, ft, fv, value, options)
              ELSE bindMapToStructWithOptions(h, value, ft, fv, options)
         ELSE Bound(fv)

\* mergeStructValue: the non-zero fields as a map (the nested records of the
\* types here name every field by a yaml key), the new data merged over it,
\* the result bound back
mergeStructValue(h, st, sv, mapData, options) ==
    LET currentData == Load(h, ATree([k \in Keys |->
                            IF IsZero(st.fields[k], sv[k]) THEN ABSENT
                            ELSE Interface(st.fields[k], sv[k])]))
        mergedData == deepMergeValues(currentData.h, currentData.v, mapData)
    IN IF IsMap(mergedData.h, mergedData.v)
       THEN bindMapToStructWithOptions(mergedData.h, mergedData.v, st, sv, options)
       ELSE Bound(sv)

\* the targets a caller can pass: a pointer to a record, the record itself,
\* an untyped nil, a nil pointer to a record
TargetKinds == {"ptr", "value", "nil", "nilptr"}

\* what a bind call does: returns nil or an error, or panics; and the record
\* behind the target as the call leaves it
Returned(err, target) == [err |-> err, panic |-> FALSE, target |-> target]
Panicked(target) == [err |-> FALSE, panic |-> TRUE, target |-> target]
OfRecord(r) == [err |-> r.err, panic |-> FALSE, target |-> r.v]

\* bindValue: reflect.ValueOf(target).Kind() is Ptr for a pointer, nil or not,
\* and Invalid for an untyped nil; Elem() of a nil pointer is the zero Value,
\* whose Kind() is not Struct and whose Type() panics
bindValue(h, value, kind, st, target) ==
    IF kind \in {"value", "nil"} THEN Returned(TRUE, target)
    ELSE IF kind = "nilptr" THEN Panicked(target)
    ELSE IF IsMap(h, value) THEN OfRecord(bindMapToStruct(h, value, st, target))
    ELSE Returned(TRUE, target)

\* bindValueWithOptions: the same checks of the target; then the tag defaults,
\* the default value merged under the data when DeepMerge is set, the result
\* bound
bindValueWithOptions(h, value, kind, st, target, options) ==
    IF kind \in {"value", "nil"} THEN Returned(TRUE, target)
    ELSE IF kind = "nilptr" THEN Panicked(target)
    ELSE LET withDefaults == applyStructDefaults(st, target)
             merged == IF options.DefaultValue # NIL /\ IsMap(h, options.DefaultValue)
                            /\ options.DeepMerge
                       THEN deepMergeValues(h, options.DefaultValue, value)
                       ELSE [h |-> h, v |-> value]
         IN IF IsMap(merged.h, merged.v)
            THEN OfRecord(bindMapToStructWithOptions(merged.h, merged.v, st, withDefaults,
                                                     options))
            ELSE Returned(TRUE, withDefaults)

\* Bind(key, target), data being c.getValue(key)
Bind(h, data, kind, st, target) ==
    IF data = NIL THEN Returned(TRUE, target) ELSE bindValue(h, data, kind, st, target)

\* BindWithOptions, data being c.getValue(key) and options.DefaultValue nil or
\* a map (a record default is converted by structToMap before)
BindWithOptions(h, data, kind, st, target, options) ==
    IF data = NIL /\ options.DefaultValue = NIL /\ ~options.UseDefaults /\ options.ErrorOnMissing
    THEN Returned(TRUE, target)
    ELSE bindValueWithOptions(
             IF data = NIL /\ options.DefaultValue = NIL
             THEN [h EXCEPT ![Alloc(h)] = MapNode(EmptyM)] ELSE h,
             IF data # NIL THEN data
             ELSE IF options.DefaultValue # NIL THEN options.DefaultValue
             ELSE Ref(Alloc(h)),
             kind, st, target, options)

\* BindWithDefault(key, &target, defaultValue)
BindWithDefault(h, data, st, target, defaultValue) ==
    BindWithOptions(h, data, "ptr", st, target,
                    [DefaultValue |-> defaultValue, UseDefaults |-> TRUE, TagName |-> "yaml",
                     DeepMerge |-> TRUE, ErrorOnMissing |-> FALSE, IgnoreCase |-> FALSE])

-----------------------------------------------------------------------------
(* A caller binding once, with any tree at the path and any default *)

LiveLeaves == {ABSENT, NIL, IntV(9), StrV(<<"6">>), StrV(<<"x">>)}

\* what the path bound holds: nothing, a scalar, or a tree whose entries are
\* missing, nil, ints, strings, and under b also a tree
LiveData ==
    {NIL, IntV(9)} \cup
    {ATree([a |-> x, b |-> y]) :
        x \in LiveLeaves,
        y \in {ABSENT, NIL, IntV(9)}
                \cup {ATree([a |-> u, b |-> w]) : u \in LiveLeaves, w \in {ABSENT, NIL, IntV(9)}}}

\* what the caller passes as default: nothing, a tree, or a record of TargetType
Defaults ==
    {NIL} \cup
    {ATree([a |-> x, b |-> y]) :
        x \in {ABSENT, NIL, IntV(5)},
        y \in {ABSENT, IntV(5)}
                \cup {ATree([a |-> u, b |-> w]) : u, w \in {ABSENT, IntV(5)}}} \cup
    {[t |-> "struct", v |-> [a |-> x, b |-> [a |-> u, b |-> w]]] : x, u, w \in {0, 5}}

\* the default as the tree it is merged as
DefaultTree(d) == IF d.t = "struct" THEN structToMap(TargetType, d.v) ELSE d

BindInit ==
    /\ bLive \in LiveData
    /\ bDefault \in Defaults
    /\ bTarget = ZeroOf(TargetType)
    /\ bErr = FALSE
    /\ bpc = "start"
    /\ bCall = NoBind
    /\ heap = EmptyHeap
    /\ StoreIdle
    /\ ConcIdle
    /\ MergeIdle
    /\ ConvIdle

\* var target T; err := c.BindWithDefault(key, &target, default)
CallBindWithDefault ==
    /\ bpc = "start"
    /\ LET data == Load(heap, bLive)
           def == Load(data.h, DefaultTree(bDefault))
           r == BindWithDefault(def.h, data.v, TargetType, bTarget, def.v)
       IN /\ bTarget' = r.target
          /\ bErr' = r.err
    /\ bpc' = "bound"
    /\ UNCHANGED <<heap, bLive, bDefault, bCall, mergeVars, storeVars, concVars, convVars>>

BindNext == CallBindWithDefault

SpecBind == BindInit /\ [][BindNext]_vars

-----------------------------------------------------------------------------
(* A caller binding once with Bind or BindWithOptions, any options, any target *)

\* a record type with fields the path tag leaves out:
\*   struct { A int `yaml:"-" json:"a"`; B int `yaml:"-"` }
SkipType ==
    StructField([a |-> Tagged(IntField(<<>>), "-", "a"), b |-> Tagged(IntField(<<>>), "-", "")])

TargetTypes == {TargetType, SkipType}

\* a record with n in every int field
RECURSIVE Filled(_, _)
Filled(ft, n) ==
    IF ft.kind = "int" THEN SetInt(ft, n) ELSE [k \in Keys |-> Filled(ft.fields[k], n)]

\* what the record holds when the call is made: zero, or 3 in every field
Before(st) == {ZeroOf(st), Filled(st, 3)}

\* the options a caller sets, the default aside
BindOptions ==
    [UseDefaults : BOOLEAN, TagName : {"", "json"}, DeepMerge : BOOLEAN,
     ErrorOnMissing : BOOLEAN, IgnoreCase : BOOLEAN]

OptLeaves == {ABSENT, NIL, IntV(9), StrV(<<"x">>)}

\* what the path bound holds
OptLive ==
    {NIL} \cup
    {ATree([a |-> x, b |-> y]) :
        x \in OptLeaves,
        y \in {ABSENT, IntV(9)} \cup {ATree([a |-> u, b |-> w]) : u, w \in {ABSENT, IntV(9)}}}

\* what the caller passes as default: nothing, a tree, or a record of TargetType
OptDefaults ==
    {NIL, [t |-> "struct", v |-> Filled(TargetType, 5)]} \cup
    {ATree([a |-> x, b |-> y]) :
        x \in {ABSENT, IntV(5)},
        y \in {ABSENT} \cup {ATree([a |-> u, b |-> w]) : u, w \in {ABSENT, IntV(5)}}}

BindOptInit ==
    /\ bLive \in OptLive
    /\ bDefault \in OptDefaults
    /\ bTarget = NIL
    /\ bErr = FALSE
    /\ bpc = "start"
    /\ bCall = NoBind
    /\ heap = EmptyHeap
    /\ StoreIdle
    /\ ConcIdle
    /\ MergeIdle
    /\ ConvIdle

\* the call returns or panics
BindEnds(op, kind, st, options, before, r) ==
    /\ bTarget' = r.target
    /\ bErr' = r.err
    /\ bCall' = [op |-> op, kind |-> kind, type |-> st, options |-> options, before |-> before,
                 panic |-> r.panic]
    /\ bpc' = "bound"
    /\ UNCHANGED <<heap, bLive, bDefault, mergeVars, storeVars, concVars, convVars>>

\* err := c.Bind(key, target)
CallBind ==
    /\ bpc = "start"
    /\ bDefault = NIL
    /\ \E kind \in TargetKinds, st \in TargetTypes :
          \E before \in Before(st) :
              LET data == Load(heap, bLive)
              IN BindEnds("Bind", kind, st, NIL, before, Bind(data.h, data.v, kind, st, before))

\* err := c.BindWithOptions(key, target, options)
CallBindWithOptions ==
    /\ bpc = "start"
    /\ \E kind \in TargetKinds, st \in TargetTypes, o \in BindOptions :
          \E before \in Before(st) :
              LET data == Load(heap, bLive)
                  def == Load(data.h, DefaultTree(bDefault))
                  options == [DefaultValue |-> def.v, UseDefaults |-> o.UseDefaults,
                              TagName |-> o.TagName, DeepMerge |-> o.DeepMerge,
                              ErrorOnMissing |-> o.ErrorOnMissing, IgnoreCase |-> o.IgnoreCase]
              IN BindEnds("BindWithOptions", kind, st, o, before,
                          BindWithOptions(def.h, data.v, kind, st, before, options))

BindOptNext == CallBind \/ CallBindWithOptions

SpecBindOptions == BindOptInit /\ [][BindOptNext]_vars

-----------------------------------------------------------------------------
(* Claims about binding *)

\* the int fields of TargetType, by the keys that lead to them
LeafPaths == {<<"a">>, <<"b", "a">>, <<"b", "b">>}

RECURSIVE FieldAt(_, _), TypeAt(_, _), Lookup(_, _)
FieldAt(sv, q) == IF q = <<>> THEN sv ELSE FieldAt(sv[Head(q)], Tail(q))
TypeAt(ft, q) == IF q = <<>> THEN ft ELSE TypeAt(ft.fields[Head(q)], Tail(q))

\* what a tree holds at q; ABSENT when a key is missing or a node on the way
\* is no tree
Lookup(t, q) ==
    IF q = <<>> THEN t
    ELSE IF t.t # "tree" THEN ABSENT
    ELSE Lookup(t.v[Head(q)], Tail(q))

\* the tag default of the field at q, or its zero value
TagOrZero(q) ==
    LET ft == TypeAt(TargetType, q)
    IN IF ft.default # <<>> THEN ParseInt(ft.default).v ELSE 0

\* a tree supplies the leaf q: it holds there a value that is, or converts to,
\* an int
Supplies(t, q) == ToInt64(Lookup(t, q)).ok
Supplied(t, q) == ToInt64(Lookup(t, q)).v

\* the live tree holds something at q, or something that is no tree on the way to q
LiveHolds(q) ==
    \E n \in 1..Len(q) :
        LET v == Lookup(bLive, SubSeq(q, 1, n))
        IN v # ABSENT /\ (n = Len(q) \/ v.t # "tree")

BoundWithOptions ==
    /\ bpc = "bound" /\ bCall.op = "BindWithOptions" /\ bCall.kind = "ptr"
    /\ bCall.type = TargetType /\ ~bErr

\* C16: whenever BindWithOptions is given a caller default, the default is
\* deep-merged beneath the live data before binding, whatever the other
\* options are: a field the live data does not supply and the default does is
\* bound to the default's value, a field both supply to the live value.
C16_DefaultMergedBeneath ==
    (BoundWithOptions /\ bDefault # NIL) =>
        \A q \in LeafPaths :
            Supplies(DefaultTree(bDefault), q) =>
                FieldAt(bTarget, q) =
                    IF Supplies(bLive, q) THEN Supplied(bLive, q)
                    ELSE Supplied(DefaultTree(bDefault), q)

\* C17: Bind and BindWithOptions return a failure, without panicking and
\* without assigning any field, whenever the target is not a pointer, is an
\* untyped nil, or is a nil pointer to a record type.
C17_BadTargetFails ==
    (bpc = "bound" /\ bCall.kind # "ptr") =>
        /\ ~bCall.panic
        /\ bErr
        /\ bTarget = bCall.before

\* C18: a field whose path tag is "-" is skipped by Bind and BindWithOptions:
\* whatever the source tree holds, a key equal to the field's identifier or to
\* its name under another tag included, the field keeps the value it had
\* before the bind.
C18_DashFieldKept ==
    (bpc = "bound" /\ bCall.type = SkipType) =>
        \A k \in Keys : bTarget[k] = bCall.before[k]

\* C19: with ErrorOnMissing set BindWithOptions fails whenever the data to
\* bind is absent (nothing at the path, no caller default), for either value
\* of UseDefaults; with ErrorOnMissing unset it binds from an empty tree: no
\* failure, and every field with a tag default that was zero holds it.
C19_ErrorOnMissing ==
    (/\ bpc = "bound" /\ bCall.op = "BindWithOptions" /\ bCall.kind = "ptr"
     /\ bLive = NIL /\ bDefault = NIL) =>
        IF bCall.options.ErrorOnMissing THEN bErr
        ELSE /\ ~bErr
             /\ bTarget = applyStructDefaults(bCall.type, bCall.before)

-----------------------------------------------------------------------------
(* confy.go: the simple typed getters *)

\* a typed slice a getter returns; the zero value is the nil slice
SliceV(ty, items) == [t |-> ty, v |-> items, isnil |-> FALSE]
NilSlice(ty) == [t |-> ty, v |-> <<>>, isnil |-> TRUE]

\* if len(defaultValue) > 0 { return defaultValue[0] }; return <zero>
orDefault(defaultValue, zero) == IF Len(defaultValue) > 0 THEN defaultValue[1] ELSE zero

\* a plausible slip: a value that does not convert yields the zero value even
\* when a default was passed
GetInt8_ZeroOnError(h, data, key, defaultValue) ==
    LET value == getValue(h, data, key)
    IN IF value.t = "nil" THEN orDefault(defaultValue, NumV("int8", 0))
       ELSE IF ~convertToInt("int8", value).ok THEN NumV("int8", 0)
       ELSE NumV("int8", convertToInt("int8", value).v)

\* GetString: the default on nil, otherwise ToString, which never fails
GetString(h, data, key, defaultValue) ==
    LET value == getValue(h, data, key)
    IN IF value.t = "nil" THEN orDefault(defaultValue, StrV(<<>>))
       ELSE StrV(tcToString(h, value))

\* GetInt
GetInt(h, data, key, defaultValue) ==
    LET value == getValue(h, data, key)
    IN IF value.t = "nil" THEN orDefault(defaultValue, NumV("int", 0))
       ELSE IF ~convertToInt("int", value).ok THEN orDefault(defaultValue, NumV("int", 0))
       ELSE NumV("int", convertToInt("int", value).v)

\* GetInt8
GetInt8(h, data, key, defaultValue) ==
    LET value == getValue(h, data, key)
    IN IF value.t = "nil" THEN orDefault(defaultValue, NumV("int8", 0))
       ELSE IF ~convertToInt("int8", value).ok THEN orDefault(defaultValue, NumV("int8", 0))
       ELSE NumV("int8", convertToInt("int8", value).v)

\* GetUint8
GetUint8(h, data, key, defaultValue) ==
    LET value == getValue(h, data, key)
    IN IF value.t = "nil" THEN orDefault(defaultValue, NumV("uint8", 0))
       ELSE IF ~convertToUint("uint8", value).ok THEN orDefault(defaultValue, NumV("uint8", 0))
       ELSE NumV("uint8", convertToUint("uint8", value).v)

\* GetBool
GetBool(h, data, key, defaultValue) ==
    LET value == getValue(h, data, key)
    IN IF value.t = "nil" THEN orDefault(defaultValue, BoolV(FALSE))
       ELSE IF ~ToBool(value).ok THEN orDefault(defaultValue, BoolV(FALSE))
       ELSE BoolV(ToBool(value).v)

\* GetDuration
GetDuration(h, data, key, defaultValue) ==
    LET value == getValue(h, data, key)
    IN IF value.t = "nil" THEN orDefault(defaultValue, DurationV(0))
       ELSE IF ~ToDuration(value).ok THEN orDefault(defaultValue, DurationV(0))
       ELSE DurationV(ToDuration(value).v)

\* GetSizeInBytes, the unit table being enumerated in `order` during the call
GetSizeInBytes(h, data, key, defaultValue, order) ==
    LET value == getValue(h, data, key)
    IN IF value.t = "nil" THEN orDefault(defaultValue, NumV("uint", 0))
       ELSE IF ~ToSizeInBytes(value, order).ok THEN orDefault(defaultValue, NumV("uint", 0))
       ELSE NumV("uint", ToSizeInBytes(value, order).v)

\* GetStringSlice
GetStringSlice(h, data, key, defaultValue) ==
    LET value == getValue(h, data, key)
    IN IF value.t = "nil" THEN orDefault(defaultValue, NilSlice("[]string"))
       ELSE IF ~ToStringSlice(h, value).ok THEN orDefault(defaultValue, NilSlice("[]string"))
       ELSE SliceV("[]string", ToStringSlice(h, value).v)

\* GetIntSlice
GetIntSlice(h, data, key, defaultValue) ==
    LET value == getValue(h, data, key)
    IN IF value.t = "nil" THEN orDefault(defaultValue, NilSlice("[]int"))
       ELSE IF ~ToIntSlice(h, value).ok THEN orDefault(defaultValue, NilSlice("[]int"))
       ELSE SliceV("[]int", ToIntSlice(h, value).v)

-----------------------------------------------------------------------------
(* A caller reading one key with a typed getter, or converting what it holds *)

\* the strings a tree holds in the runs explored
Strings ==
    {<<>>, <<"7">>, <<"-", "7">>, <<"3", "0", "0">>, <<"x">>, <<"1", ".", "5">>,
     <<"t", "r", "u", "e">>, <<"y", "e", "s">>, <<"Y", "E", "S">>,
     <<"5", "s">>, <<"1", ".", "5", "s">>, <<"1", "m", "3", "0", "s">>,
     <<"1", "K", "B">>, <<"2", "k">>, <<"1", ".", "5", "M", "B">>, <<" ", "1", "0", " ">>,
     <<"1", "0", "B">>}

\* integers of every type told apart, at and beyond the limits of the narrow ones
Integers8 == {-129, -128, -1, 0, 1, 127, 128, 255, 256, 1000}
Integers16 == {-32769, -32768, 32767, 32768, 40000, 65535, 65536, 70000}
IntegerValues ==
    {NumV("int8", n) : n \in {-128, -1, 0, 1, 127}} \cup
    {NumV("uint8", n) : n \in {0, 1, 127, 128, 255}} \cup
    {NumV("int16", n) : n \in {x \in Integers8 \cup Integers16 : -32768 <= x /\ x <= 32767}} \cup
    {NumV("uint16", n) : n \in {x \in Integers8 \cup Integers16 : 0 <= x /\ x <= 65535}} \cup
    {NumV("int", n) : n \in Integers8 \cup Integers16} \cup
    {NumV("uint", n) : n \in {x \in Integers8 \cup Integers16 : 0 <= x}}

\* what the key read holds: nothing, nil, a number, a bool, a string, a
\* duration, a sequence, a tree
StoredValues ==
    {ABSENT, NIL, FloatV(3), FloatV(-3), FloatV(0), BoolV(TRUE), BoolV(FALSE), DurationV(10),
     ASeq(<<>>), ASeq(<<IntV(1), StrV(<<"7">>)>>), ASeq(<<IntV(1), NIL>>),
     ASeq(<<StrV(<<"x">>)>>), ATree([a |-> IntV(1), b |-> ABSENT])}
        \cup IntegerValues \cup {StrV(s) : s \in Strings}

\* the key read, "a", and a key under it
ReadKeys == {<<"a">>, <<"a", "a">>}

ConvInit ==
    /\ \E x \in StoredValues :
          LET r == Load(EmptyHeap, ATree([a |-> x, b |-> ABSENT]))
          IN heap = r.h /\ cData = r.v
    /\ cCall = NoCall
    /\ StoreIdle
    /\ ConcIdle
    /\ BindIdle
    /\ MergeIdle

\* the caller's one call returns res
Returns(name, key, defaultValue, res) ==
    /\ cCall = NoCall
    /\ cCall' = [name |-> name, key |-> key, default |-> defaultValue, res |-> res]
    /\ UNCHANGED <<heap, cData, mergeVars, storeVars, concVars, bindVars>>

CallGetString ==
    \E key \in ReadKeys, d \in {<<>>, <<StrV(<<"d">>)>>} :
        Returns("GetString", key, d, GetString(heap, cData, key, d))
CallGetInt ==
    \E key \in ReadKeys, d \in {<<>>, <<NumV("int", 5)>>} :
        Returns("GetInt", key, d, GetInt(heap, cData, key, d))
CallGetInt8 ==
    \E key \in ReadKeys, d \in {<<>>, <<NumV("int8", 5)>>} :
        Returns("GetInt8", key, d, GetInt8(heap, cData, key, d))
CallGetUint8 ==
    \E key \in ReadKeys, d \in {<<>>, <<NumV("uint8", 5)>>} :
        Returns("GetUint8", key, d, GetUint8(heap, cData, key, d))
CallGetBool ==
    \E key \in ReadKeys, d \in {<<>>, <<BoolV(TRUE)>>} :
        Returns("GetBool", key, d, GetBool(heap, cData, key, d))
CallGetDuration ==
    \E key \in ReadKeys, d \in {<<>>, <<DurationV(5)>>} :
        Returns("GetDuration", key, d, GetDuration(heap, cData, key, d))
CallGetSizeInBytes ==
    \E key \in ReadKeys, d \in {<<>>, <<NumV("uint", 5)>>}, order \in UnitOrders :
        Returns("GetSizeInBytes", key, d, GetSizeInBytes(heap, cData, key, d, order))
CallGetStringSlice ==
    \E key \in ReadKeys, d \in {<<>>, <<SliceV("[]string", <<<<"d">>>>)>>} :
        Returns("GetStringSlice", key, d, GetStringSlice(heap, cData, key, d))
CallGetIntSlice ==
    \E key \in ReadKeys, d \in {<<>>, <<SliceV("[]int", <<5>>)>>} :
        Returns("GetIntSlice", key, d, GetIntSlice(heap, cData, key, d))

\* r, err := converter.ToInt8(v) and its siblings, on the value under "a"
CallConvertToInt ==
    \E ty \in SignedTypes :
        LET r == convertToInt(ty, getValue(heap, cData, <<"a">>))
        IN Returns("convertToInt", <<"a">>, <<ty>>, [t |-> IF r.ok THEN ty ELSE "error", v |-> r.v])
CallConvertToUint ==
    \E ty \in UnsignedTypes :
        LET r == convertToUint(ty, getValue(heap, cData, <<"a">>))
        IN Returns("convertToUint", <<"a">>, <<ty>>, [t |-> IF r.ok THEN ty ELSE "error", v |-> r.v])

\* tc.ToSizeInBytes(value) on the value stored, the unit table enumerated in
\* whatever order this call meets
CallToSizeInBytes ==
    \E order \in UnitOrders :
        LET r == ToSizeInBytes(getValue(heap, cData, <<"a">>), order)
        IN Returns("ToSizeInBytes", <<"a">>, <<>>,
                   [t |-> IF r.ok THEN "uint" ELSE "error", v |-> r.v])

ConvNext ==
    \/ CallGetString
    \/ CallGetInt
    \/ CallGetInt8
    \/ CallGetUint8
    \/ CallGetBool
    \/ CallGetDuration
    \/ CallGetSizeInBytes
    \/ CallGetStringSlice
    \/ CallGetIntSlice
    \/ CallConvertToInt
    \/ CallConvertToUint
    \/ CallToSizeInBytes

SpecConvert == ConvInit /\ [][ConvNext]_vars

-----------------------------------------------------------------------------
(* Claims about the typed getters and the converter *)

Getters == {"GetString", "GetInt", "GetInt8", "GetUint8", "GetBool", "GetDuration",
            "GetSizeInBytes", "GetStringSlice", "GetIntSlice"}

\* the zero value of a getter's result type
ZeroValue(name) ==
    CASE name = "GetString" -> StrV(<<>>)
      [] name = "GetInt" -> NumV("int", 0)
      [] name = "GetInt8" -> NumV("int8", 0)
      [] name = "GetUint8" -> NumV("uint8", 0)
      [] name = "GetBool" -> BoolV(FALSE)
      [] name = "GetDuration" -> DurationV(0)
      [] name = "GetSizeInBytes" -> NumV("uint", 0)
      [] name = "GetStringSlice" -> NilSlice("[]string")
      [] OTHER -> NilSlice("[]int")

\* a converter's answer as a value of the result type
Typed(r, v) == [ok |-> r.ok, v |-> IF r.ok THEN v ELSE NIL]

\* what the converter behind a getter can answer for a value that is not nil
\* (one answer, except for the size converter, whose answer may depend on the
\* order it enumerates its units in)
Coerced(name, h, value) ==
    CASE name = "GetString" -> {[ok |-> TRUE, v |-> StrV(tcToString(h, value))]}
      [] name = "GetInt" ->
            {Typed(convertToInt("int", value), NumV("int", convertToInt("int", value).v))}
      [] name = "GetInt8" ->
            {Typed(convertToInt("int8", value), NumV("int8", convertToInt("int8", value).v))}
      [] name = "GetUint8" ->
            {Typed(convertToUint("uint8", value), NumV("uint8", convertToUint("uint8", value).v))}
      [] name = "GetBool" -> {Typed(ToBool(value), BoolV(ToBool(value).v))}
      [] name = "GetDuration" -> {Typed(ToDuration(value), DurationV(ToDuration(value).v))}
      [] name = "GetSizeInBytes" ->
            {Typed(ToSizeInBytes(value, o), NumV("uint", ToSizeInBytes(value, o).v)) :
                o \in UnitOrders}
      [] name = "GetStringSlice" ->
            {Typed(ToStringSlice(h, value), SliceV("[]string", ToStringSlice(h, value).v))}
      [] OTHER -> {Typed(ToIntSlice(h, value), SliceV("[]int", ToIntSlice(h, value).v))}

Lowest(ty) == IF ty \in SignedTypes THEN -Pow(2, Bits(ty) - 1) ELSE 0
Highest(ty) == IF ty \in SignedTypes THEN Pow(2, Bits(ty) - 1) - 1 ELSE Pow(2, Bits(ty)) - 1

LongestUnit(s) ==
    LET ends == {u \in SizeUnits : HasSuffix(s, u)}
    IN IF ends = {} THEN <<>>
       ELSE CHOOSE u \in ends : \A w \in ends : Len(w) <= Len(u)

\* the size of a string by the longest unit that ends it
SizeByLongestUnit(str) ==
    LET s == TrimSpace(ToUpper(str))
        unit == LongestUnit(s)
        number == ParseFloat(TrimSpace(TrimSuffix(s, unit)))
    IN IF s = <<>> THEN Fails
       ELSE IF unit = <<>> THEN ParseUint(s)
       ELSE IF ~number.ok THEN Fails
       ELSE Yields((number.num * Multiplier(unit)) \div number.den)

\* C21: ToSizeInBytes on a string is a function of the string, by the longest
\* unit suffix: "nKB" yields n*1024 (never n"K" tried with "B"), "nMB"
\* n*1024^2, "nK" n*1000, a string without unit n, whatever order the unit
\* table is enumerated in; an empty or unparsable string is a failure.
C21_LongestSuffixDecides ==
    LET value == getValue(heap, cData, <<"a">>)
    IN (cCall.name = "ToSizeInBytes" /\ value.t = "str") =>
          IF SizeByLongestUnit(value.v).ok
          THEN cCall.res = NumV("uint", SizeByLongestUnit(value.v).v)
          ELSE cCall.res.t = "error"

-----------------------------------------------------------------------------
(* confy.go: IsSet, on what Set stored *)

\* a []string: a slice whose static type is not []any
StringsV(items) == [t |-> "[]string", v |-> items]

\* c.IsSet(key): the switch on the dynamic type of what Get returned
IsSetOf(h, value) ==
    IF value = NIL THEN FALSE
    ELSE IF value.t = "str" THEN value.v # <<>>
    ELSE IF IsSlice(h, value) THEN Len(h[value.v].s) > 0
    ELSE IF IsMap(h, value) THEN \E k \in Keys : h[value.v].m[k] # ABSENT
    ELSE TRUE

IsSet(i, key) ==
    /\ Ready
    /\ Finish(heap, accs,
              Op("IsSet", i, key, NIL, BoolV(IsSetOf(heap, getValue(heap, accs[i].data, key))), {}),
              nextCb)

\* what the caller stores: nil, empty and non-empty strings, sequences and
\* trees, and the zero number and boolean
IsSetValues ==
    {NIL, StrV(<<>>), StrV(<<"x">>), IntV(0), BoolV(FALSE), ASeq(<<>>), ASeq(<<IntV(1)>>),
     StringsV(<<>>), StringsV(<<<<"x">>>>), ATree([k \in Keys |-> ABSENT]), One("a", IntV(2))}

IsSetKeys == {<<"a">>, <<"b">>, <<"a", "b">>}

IsSetInit ==
    /\ LET r == Load(EmptyHeap, ATree([k \in Keys |-> ABSENT]))
       IN /\ heap = r.h
          /\ accs = <<Accessor(r.v, FALSE, Origin("new", 0, <<>>, FALSE))>>
    /\ nextCb = 0
    /\ last = NoOp
    /\ nops = 0
    /\ crashed = FALSE
    /\ MergeIdle
    /\ ConcIdle
    /\ BindIdle
    /\ ConvIdle

StoreValue == \E key \in IsSetKeys, x \in IsSetValues :
                  LET r == Load(heap, x) IN Ready /\ Set(1, key, r.h, r.v)
CallIsSet == \E key \in IsSetKeys : IsSet(1, key)

IsSetNext == StoreValue \/ CallIsSet

SpecIsSet == IsSetInit /\ [][IsSetNext]_vars

\* nil, the empty string, an empty sequence of any element type, an empty tree
NothingIn(h, value) ==
    \/ value = NIL
    \/ value = StrV(<<>>)
    \/ IsSlice(h, value) /\ h[value.v].s = <<>>
    \/ value = StringsV(<<>>)
    \/ IsMap(h, value) /\ \A k \in Keys : h[value.v].m[k] = ABSENT

\* C22: IsSet(k) is false exactly when the value at k is nil (never set, or
\* set to nil), the empty string, an empty sequence of any element type or an
\* empty tree, and true for every other value, 0 and false included.
C22_IsSetFalseOnEmpty ==
    last.op = "IsSet" =>
        last.res = BoolV(~NothingIn(heap, getValue(heap, accs[1].data, last.path)))

-----------------------------------------------------------------------------
(* confy.go: LoadFrom, Reload and the sources they load *)

\* a ConfigSource: its Name(), its Priority(), and the tree the loader reads
\* from it
Source(name, priority, tree) == [name |-> name, priority |-> priority, tree |-> tree]

\* the sources of the runs explored, with the priorities of the README; two
\* of them have the same priority
SourcePool ==
    {Source("base", 100, ATree([a |-> ATree([a |-> IntV(1), b |-> IntV(1)]), b |-> IntV(1)])),
     Source("local", 200, One("a", One("a", IntV(2)))),
     Source("flags", 200, ATree([a |-> IntV(4), b |-> NIL])),
     Source("env", 300, One("a", One("b", IntV(3))))}

\* an accessor made by New, with c.sources
Loading(data, strict) ==
    [data |-> data, watchCallbacks |-> NoCallbacks, changeCallbacks |-> <<>>,
     strict |-> strict, origin |-> Origin("new", 0, <<>>, FALSE), sources |-> <<>>]

\* the sequences that list every member of S once
RECURSIVE Orders(_)
Orders(S) ==
    IF S = {} THEN {<<>>} ELSE UNION {{<<x>> \o s : s \in Orders(S \ {x})} : x \in S}

\* a plausible slip: the sources are loaded as the registry lists them
Sorted_AsRegistered(sources) == Orders(sources)

\* registry.GetSources() followed by sort.Slice on the priorities: the
\* registered sources in an order in which priorities never descend (the
\* registry lists them in an order of its own, and the sort is not stable)
Sorted(sources) ==
    {s \in Orders(sources) : \A i, j \in DOMAIN s : i < j => s[i].priority <= s[j].priority}

\* the loop of loadAllSources over the sorted sources: load, then merge into
\* mergedData
RECURSIVE loadLoop(_, _, _)
loadLoop(h, mergedData, ps) ==
    IF ps = <<>> THEN h
    ELSE LET r == Load(h, Head(ps).tree)
         IN loadLoop(MergeInPlace(r.h, mergedData, r.v), mergedData, Tail(ps))

\* loadAllSources when every source loads: the heap and the new c.data
loadAllSources(h, ps) ==
    LET mergedData == Alloc(h)
    IN [h |-> loadLoop([h EXCEPT ![mergedData] = MapNode(EmptyM)], Ref(mergedData), ps),
        v |-> Ref(mergedData)]

\* c.LoadFrom(sources...): loads says whether the loader could read every
\* source, valid what validator.ValidateAll finds for the merged tree
LoadFrom(i, sources, ps, loads, valid) ==
    LET c == [accs[i] EXCEPT !.sources = @ \o sources]
        r == loadAllSources(heap, ps)
    IN /\ Ready
       /\ ps \in Sorted(Range(c.sources))
       /\ IF loads
          THEN Finish(r.h, [accs EXCEPT ![i] = [c EXCEPT !.data = r.v]],
                      Op("LoadFrom", i, <<>>, NIL, BoolV(valid), {}), nextCb)
          ELSE Finish(heap, [accs EXCEPT ![i] = c],
                      Op("LoadFrom", i, <<>>, NIL, BoolV(FALSE), {}), nextCb)

\* c.Reload()
Reload(i, ps, loads, valid) ==
    LET c == accs[i]
        r == loadAllSources(heap, ps)
        loaded == [c EXCEPT !.data = r.v]
    IN /\ Ready
       /\ ps \in Sorted(Range(c.sources))
       /\ IF loads
          THEN Finish(r.h, [accs EXCEPT ![i] = loaded],
                      Op("Reload", i, <<>>, NIL, BoolV(valid),
                         IF valid THEN Goroutines(notifyWatchCallbacks(r.h, loaded)) ELSE {}),
                      nextCb)
          ELSE Finish(heap, accs, Op("Reload", i, <<>>, NIL, BoolV(FALSE), {}), nextCb)

\* the sources a call of LoadFrom may be given: one or two that are not
\* registered yet, with different names
NewSources(c) ==
    LET fresh == {s \in SourcePool : \A n \in DOMAIN c.sources : c.sources[n].name # s.name}
    IN {<<s>> : s \in fresh} \cup {st \in fresh \X fresh : st[1] # st[2]}

LoadInit ==
    /\ \E strict \in BOOLEAN :
          /\ heap = [EmptyHeap EXCEPT ![Alloc(EmptyHeap)] = MapNode(EmptyM)]
          /\ accs = <<Loading(Ref(Alloc(EmptyHeap)), strict)>>
    /\ nextCb = 0
    /\ last = NoOp
    /\ nops = 0
    /\ crashed = FALSE
    /\ MergeIdle
    /\ ConcIdle
    /\ BindIdle
    /\ ConvIdle

CallLoadFrom ==
    \E i \in AccIds :
        \E sources \in NewSources(accs[i]) :
            \E ps \in Sorted(Range(accs[i].sources) \cup Range(sources)) :
                \E loads, valid \in BOOLEAN : LoadFrom(i, sources, ps, loads, valid)

CallReload ==
    \E i \in AccIds :
        \E ps \in Sorted(Range(accs[i].sources)) :
            \E loads, valid \in BOOLEAN : Reload(i, ps, loads, valid)

\* Set between two loads, at a key the sources supply and at one they do not
SetLoaded ==
    \E i \in AccIds, key \in {<<"a", "b">>, <<"b", "b">>} : Ready /\ Set(i, key, heap, IntV(2))

LoadNext ==
    \/ CallLoadFrom
    \/ CallReload
    \/ SetLoaded
    \/ SourceChanges
    \/ CallWatchWithCallback

SpecLoad == LoadInit /\ [][LoadNext]_vars

-----------------------------------------------------------------------------
(* Claims about loading *)

\* the reference merge folded over a sequence of sources
RECURSIVE FoldMerge(_, _)
FoldMerge(t, ps) ==
    IF ps = <<>> THEN t ELSE FoldMerge(RefMerge(t, Head(ps).tree), Tail(ps))

\* priorities never descend along ps
Ascending(ps) == \A n \in 1..(Len(ps) - 1) : ps[n].priority <= ps[n + 1].priority

\* a source decides what is read at q: it holds a value at q, or a value that
\* is no tree on the way to q
Decides(t, q) ==
    \E n \in 1..Len(q) :
        LET v == Lookup(t, SubSeq(q, 1, n))
        IN v # ABSENT /\ (n = Len(q) \/ v.t # "tree")

\* what Get(q) returns on a tree that holds x at q
Read(x) == IF x = ABSENT THEN NIL ELSE x

\* LoadFrom or Reload has just returned without error
Loaded == last.op \in {"LoadFrom", "Reload"} /\ last.res = BoolV(TRUE)

\* C23: after LoadFrom or Reload succeeds, the live tree is the deep merge of
\* the trees of all registered sources folded in ascending priority order,
\* whatever the order of registration; a leaf supplied by several sources with
\* distinct priorities reads as the highest-priority source has it, and
\* sub-trees supplied by several sources are merged key by key.
C23_LoadedInPriorityOrder ==
    Loaded =>
        LET c == accs[last.acc]
            registered == Range(c.sources)
        IN /\ \E ps \in Orders(registered) :
                  /\ Ascending(ps)
                  /\ Abs(heap, c.data) = FoldMerge(ATree([k \in Keys |-> ABSENT]), ps)
           /\ \A q \in Paths, s \in registered :
                  (/\ Decides(s.tree, q)
                   /\ Lookup(s.tree, q).t # "tree"
                   /\ \A o \in registered \ {s} : Decides(o.tree, q) => o.priority < s.priority)
                  => Abs(heap, getValue(heap, c.data, q)) = Read(Lookup(s.tree, q))

\* the highest-priority source was registered first, its leaf a.b is also
\* supplied by a lower source, a.a comes from a lower source alone, and the
\* load succeeded
C23_Witness ==
    /\ Loaded
    /\ Len(accs[last.acc].sources) >= 2
    /\ accs[last.acc].sources[1].priority = 300
    /\ accs[last.acc].sources[2].priority = 100
    /\ getValue(heap, accs[last.acc].data, <<"a", "b">>) = IntV(3)
    /\ getValue(heap, accs[last.acc].data, <<"a", "a">>) = IntV(1)

-----------------------------------------------------------------------------
(* A caller binding a record with a time.Duration field *)

\* the record type bound into:
\*   struct { A time.Duration `yaml:"a"`; B int `yaml:"b"` }
DurationType ==
    StructField([a |-> Tagged(DurationField, "a", ""), b |-> Tagged(IntField(<<>>), "b", "")])

\* what the tree holds under a: nothing, nil, a count of seconds, a duration
\* string, a string that is none, a time.Duration
DurationLeaves ==
    {ABSENT, NIL, IntV(30), StrV(<<"1", "0", "s">>), StrV(<<"x">>), DurationV(3)}

DurationLive == {ATree([a |-> x, b |-> y]) : x \in DurationLeaves, y \in {ABSENT, IntV(9)}}

BindDurationInit ==
    /\ bLive \in DurationLive
    /\ bDefault \in {NIL, One("b", IntV(5))}
    /\ bTarget = NIL
    /\ bErr = FALSE
    /\ bpc = "start"
    /\ bCall = NoBind
    /\ heap = EmptyHeap
    /\ StoreIdle
    /\ ConcIdle
    /\ MergeIdle
    /\ ConvIdle

\* err := c.Bind(key, &target)
BindDuration ==
    /\ bpc = "start"
    /\ bDefault = NIL
    /\ \E before \in Before(DurationType) :
          LET data == Load(heap, bLive)
          IN BindEnds("Bind", "ptr", DurationType, NIL, before,
                      Bind(data.h, data.v, "ptr", DurationType, before))

\* err := c.BindWithDefault(key, &target, default)
BindDurationWithDefault ==
    /\ bpc = "start"
    /\ \E before \in Before(DurationType) :
          LET data == Load(heap, bLive)
              def == Load(data.h, bDefault)
          IN BindEnds("BindWithDefault", "ptr", DurationType, NIL, before,
                      BindWithDefault(def.h, data.v, DurationType, before, def.v))

\* err := c.BindWithOptions(key, &target, options)
BindDurationWithOptions ==
    /\ bpc = "start"
    /\ \E o \in BindOptions, before \in Before(DurationType) :
          LET data == Load(heap, bLive)
              def == Load(data.h, bDefault)
              options == [DefaultValue |-> def.v, UseDefaults |-> o.UseDefaults,
                          TagName |-> o.TagName, DeepMerge |-> o.DeepMerge,
                          ErrorOnMissing |-> o.ErrorOnMissing, IgnoreCase |-> o.IgnoreCase]
          IN BindEnds("BindWithOptions", "ptr", DurationType, o, before,
                      BindWithOptions(def.h, data.v, "ptr", DurationType, before, options))

BindDurationNext == BindDuration \/ BindDurationWithDefault \/ BindDurationWithOptions

SpecBindDuration == BindDurationInit /\ [][BindDurationNext]_vars

\* C24: a duration-typed field is coerced with the converter's duration rule
\* on every binding path: bound from an integer n it holds n seconds, bound
\* from a duration string it holds the parsed duration, the same under Bind,
\* BindWithDefault and BindWithOptions for the same tree.
C24_DurationFieldOnEveryPath ==
    (bpc = "bound" /\ bCall.type = DurationType /\ ~bErr) =>
        /\ bLive.v["a"] = IntV(30) => bTarget["a"] = HalfSeconds(2 * 30)
        /\ bLive.v["a"] = StrV(<<"1", "0", "s">>) => bTarget["a"] = HalfSeconds(2 * 10)

-----------------------------------------------------------------------------
(* Claims about watch-driven updates *)

\* the goroutines a full notification starts on accessor c over heap h: one
\* per change callback, and one per watch callback with its key and the value
\* at that key
Dispatched(h, c, spawned) ==
    /\ \A cb \in Range(c.changeCallbacks) : \E g \in spawned : g.kind = "change" /\ g.cb = cb
    /\ \A k \in WatchKeys :
          \A cb \in Range(c.watchCallbacks[k]) :
              \E g \in spawned :
                  g.kind = "watch" /\ g.cb = cb /\ g.key = k /\ g.val = getValue(h, c.data, k)

\* a step that is a watch-driven update: rejected in strict mode, it leaves
\* the tree as it was and starts nothing; otherwise the tree is the update
\* merged into the tree before, and every callback is started
UpdateStep ==
    (last'.op = "Update" /\ nops' = nops + 1 /\ ~crashed') =>
        LET i == last'.acc
            before == Abs(heap, accs[i].data)
            after == Abs(heap', accs'[i].data)
        IN /\ last'.res = BoolV(FALSE) =>
                  /\ accs[i].strict
                  /\ after = before
                  /\ \A q \in Paths :
                         Abs(heap', getValue(heap', accs'[i].data, q))
                             = Abs(heap, getValue(heap, accs[i].data, q))
                  /\ last'.spawned = {}
           /\ ~accs[i].strict =>
                  /\ last'.res = BoolV(TRUE)
                  /\ \E x \in Updates : after = RefMerge(before, x)
                  /\ Dispatched(heap', accs'[i], last'.spawned)

\* C25: when a watch-driven update is merged and the validator rejects the
\* result in strict mode, the update is rolled back: the live tree equals the
\* tree before the update at every depth and no change or watch callback is
\* dispatched; in permissive mode the merged tree is kept and the callbacks
\* are dispatched.
C25_StrictUpdateRollsBack == [][UpdateStep]_vars

\* a rejected update has returned on a strict accessor that holds the nested
\* tree it was made with and has a callback registered
C25_Witness ==
    /\ last.op = "Update"
    /\ nops = 2
    /\ last.res = BoolV(FALSE)
    /\ accs[last.acc].strict
    /\ Registered(accs[last.acc]) # {}
    /\ getValue(heap, accs[last.acc].data, <<"a", "a">>) = IntV(1)

-----------------------------------------------------------------------------
(* Claims about MergeInPlace *)

\* a step that is MergeInPlace(A, B) on two trees: A becomes what
\* DeepMerge(A, B) returns for the trees before, B stays as it was
InPlaceStep ==
    (mpc = "start" /\ mpc' = "inplace" /\ mExisting # NIL /\ mNew # NIL) =>
        LET r == DeepMerge(heap, mExisting, mNew)
        IN /\ Abs(heap', mExisting') = Abs(r.h, r.v)
           /\ Abs(heap', mNew') = Abs(heap, mNew)

\* after MergeInPlace(A, B): A and B share no map or slice, a write into B
\* leaves A as the merge left it, and a write into A leaves B as it was
InPlaceApart ==
    (mpc = "inplace" /\ mExisting # NIL /\ mNew # NIL) =>
        /\ Reach(heap, mExisting) \cap Reach(heap, mNew) = {}
        /\ mTouched \in {"none", "new"} => Abs(heap, mExisting) = mSnap.result
        /\ mTouched \in {"none", "existing"} => Abs(heap, mNew) = mSnap.new

\* C26: MergeInPlace refines DeepMerge: for trees A and B, after
\* MergeInPlace(A, B) the tree A equals DeepMerge(A before, B), B is unchanged,
\* and A shares no mutable node with B: a later write into B is invisible
\* in A.
C26_MergeInPlaceRefinesDeepMerge == [][InPlaceStep]_vars /\ []InPlaceApart

\* both trees held a tree under "a", B's was merged into A's in place, and
\* the caller then wrote below the root of B
C26_Witness ==
    /\ mpc = "inplace"
    /\ mTouched = "new"
    /\ mExisting # NIL /\ mNew # NIL
    /\ mSnap.existing.v["a"].t = "tree"
    /\ mSnap.new.v["a"].t = "tree"
    /\ mSnap.result.v["a"] # mSnap.existing.v["a"]
    /\ mSnap.result.v["a"].t = "tree"
    /\ Abs(heap, mNew).v["a"].t = "tree"
    /\ Abs(heap, mNew).v["a"] # mSnap.new.v["a"]

-----------------------------------------------------------------------------
(* confy.go: GetWithOptions *)

\* an option that was not given
NoFunc == [t |-> "nofunc", v |-> 0]

\* the callbacks of the runs explored. An on-missing callback returns the
\* same value for every key; the transform adds ten to an integer and passes
\* on everything else; a validator accepts the integers from its minimum on
Returning(v) == [t |-> "func", v |-> v]
AddTen == [t |-> "func", v |-> 10]
AtLeast(n) == [t |-> "func", v |-> n]

OnMissing(f, key) == f.v
Transform(f, value) == IF value.t = "int" THEN IntV(value.v + f.v) ELSE value
Validator(f, value) == value.t = "int" /\ value.v >= f.v

GetOptions ==
    [Required : BOOLEAN,
     OnMissing : {NoFunc, Returning(NIL), Returning(IntV(6))},
     Default : {NIL, IntV(5)},
     Transform : {NoFunc, AddTen},
     Validator : {NoFunc, AtLeast(0), AtLeast(10)}]

\* what GetWithOptions returns: (value, nil) or (nil, err)
Value(v) == [v |-> v, err |-> FALSE]
Error == [v |-> NIL, err |-> TRUE]

\* the part of GetWithOptions after the missing key is dealt with
transformAndValidate(value, options) ==
    LET transformed == IF options.Transform # NoFunc
                       THEN Transform(options.Transform, value) ELSE value
    IN IF options.Validator # NoFunc /\ ~Validator(options.Validator, transformed)
       THEN Error
       ELSE Value(transformed)

\* c.GetWithOptions(key, opts...), options being what opts set
GetWithOptions(h, data, key, options) ==
    LET value == getValue(h, data, key)
    IN IF value = NIL
       THEN IF options.Required THEN Error
            ELSE IF options.OnMissing # NoFunc
                 THEN transformAndValidate(OnMissing(options.OnMissing, key), options)
            ELSE IF options.Default # NIL THEN Value(options.Default)
            ELSE Value(NIL)
       ELSE transformAndValidate(value, options)

GetOptInit ==
    /\ \E x \in {ABSENT, NIL, IntV(1), StrV(<<>>)} :
          LET r == Load(EmptyHeap, ATree([a |-> x, b |-> ABSENT]))
          IN heap = r.h /\ cData = r.v
    /\ cCall = NoCall
    /\ StoreIdle
    /\ ConcIdle
    /\ BindIdle
    /\ MergeIdle

CallGetWithOptions ==
    \E key \in ReadKeys, options \in GetOptions :
        Returns("GetWithOptions", key, options, GetWithOptions(heap, cData, key, options))

GetOptNext == CallGetWithOptions

SpecGetOptions == GetOptInit /\ [][GetOptNext]_vars

\* the values a call can start from: what the tree holds at the key, what
\* the on-missing callback returns, the default
Origins(h, data, key, options) ==
    {getValue(h, data, key), options.Default}
        \cup (IF options.OnMissing # NoFunc THEN {OnMissing(options.OnMissing, key)} ELSE {})

\* C27: GetWithOptions resolves in the order required-check, on-missing
\* callback, default, transform, validator: a missing key with the required
\* flag is a failure even when a default or an on-missing callback is given;
\* and when a validator is given and a non-nil value is returned without
\* failure, that value went through the transform (if any) and was accepted by
\* the validator, whether it came from the tree, the callback or the default.
C27_GetWithOptionsOrder ==
    cCall.name = "GetWithOptions" =>
        LET options == cCall.default
            res == cCall.res
        IN /\ (getValue(heap, cData, cCall.key) = NIL /\ options.Required) => res = Error
           /\ (options.Validator # NoFunc /\ ~res.err /\ res.v # NIL) =>
                  /\ Validator(options.Validator, res.v)
                  /\ options.Transform # NoFunc =>
                         \E x \in Origins(heap, cData, cCall.key, options) \ {NIL} :
                             res.v = Transform(options.Transform, x)

-----------------------------------------------------------------------------
(* Concurrent callers of MergeWith on two accessors *)

MergeIdling == [pc |-> "idle", op |-> "none", acc |-> 0, other |-> 0, calls |-> 0]

\* two accessors made by New, over {a: 1} and {b: 2}, each with its own c.mu
MergeWithInit ==
    /\ LET a == Load(EmptyHeap, One("a", IntV(1)))
           b == Load(a.h, One("b", IntV(2)))
       IN /\ heap = b.h
          /\ accs = <<Accessor(a.v, FALSE, Origin("new", 0, <<>>, FALSE)),
                      Accessor(b.v, FALSE, Origin("new", 0, <<>>, FALSE))>>
    /\ nextCb = 0
    /\ last = NoOp
    /\ nops = 0
    /\ crashed = FALSE
    /\ th = [t \in Threads |-> MergeIdling]
    /\ mu = <<[w |-> 0, r |-> {}], [w |-> 0, r |-> {}]>>
    /\ gos = <<>>
    /\ sets = {}
    /\ MergeIdle
    /\ BindIdle
    /\ ConvIdle

\* a caller calls c.MergeWith(other), c and other being any of the accessors,
\* the same one included
MergeWithCall(t) ==
    /\ th[t].pc = "idle"
    /\ th[t].calls < MaxCalls
    /\ \E i, j \in DOMAIN accs :
          th' = [th EXCEPT ![t] = [@ EXCEPT !.pc = "lock", !.op = "MergeWith", !.acc = i,
                                            !.other = j]]
    /\ UNCHANGED <<heap, mergeVars, bindVars, storeVars, mu, gos, sets, convVars>>

\* c.mu.Lock()
MergeWithLock(t) ==
    /\ th[t].pc = "lock"
    /\ mu[th[t].acc].w = 0 /\ mu[th[t].acc].r = {}
    /\ mu' = [mu EXCEPT ![th[t].acc].w = t]
    /\ th' = [th EXCEPT ![t].pc = "rlock"]
    /\ UNCHANGED <<heap, mergeVars, bindVars, storeVars, gos, sets, convVars>>

\* otherImpl.mu.RLock(): it waits while a writer holds the lock, the caller
\* itself included, since a sync.RWMutex does not know who holds it
MergeWithRLock(t) ==
    /\ th[t].pc = "rlock"
    /\ mu[th[t].other].w = 0
    /\ mu' = [mu EXCEPT ![th[t].other].r = @ \cup {t}]
    /\ th' = [th EXCEPT ![t].pc = "held"]
    /\ UNCHANGED <<heap, mergeVars, bindVars, storeVars, gos, sets, convVars>>

\* c.mergeData(c.data, otherImpl.data), then the deferred RUnlock and Unlock
MergeWithMerges(t) ==
    /\ th[t].pc = "held"
    /\ LET i == th[t].acc
           j == th[t].other
       IN /\ heap' = Collect(MergeInPlace(heap, accs[i].data, accs[j].data),
                             {accs[x].data : x \in DOMAIN accs})
          /\ mu' = [mu EXCEPT ![j].r = @ \ {t}, ![i].w = 0]
          /\ th' = [th EXCEPT ![t] = [@ EXCEPT !.pc = "idle", !.calls = @ + 1]]
    /\ UNCHANGED <<mergeVars, bindVars, storeVars, gos, sets, convVars>>

\* the next step of a caller that is inside MergeWith
MergeWithProceeds(t) == MergeWithLock(t) \/ MergeWithRLock(t) \/ MergeWithMerges(t)

MergeWithNext == \E t \in Threads : MergeWithCall(t) \/ MergeWithProceeds(t)

\* every caller inside a call goes on whenever it can
MergeWithFair == \A t \in Threads : WF_vars(MergeWithProceeds(t))

SpecMergeWith == MergeWithInit /\ [][MergeWithNext]_vars /\ MergeWithFair

\* C28: MergeWith is deadlock-free: every call of MergeWith returns under any
\* interleaving, a.MergeWith(b) running next to b.MergeWith(a) and the
\* self-merge a.MergeWith(a) included.
C28_MergeWithReturns ==
    \A t \in Threads : (th[t].op = "MergeWith" /\ th[t].pc # "idle") ~> (th[t].pc = "idle")

-----------------------------------------------------------------------------
(* Claims about what is dispatched *)

\* the calls that end with notifyWatchCallbacks: Set, a Reload that succeeded,
\* a watch-driven update that was accepted
Notifies(lst) ==
    \/ lst.op = "Set"
    \/ lst.op \in {"Reload", "Update"} /\ lst.res = BoolV(TRUE)

\* a step that is such a call: of the goroutines it started, exactly one runs
\* each watch callback registered, under whatever key, with that key and the
\* value the tree holds at that key when the call returns; and no other
\* goroutine runs a watch callback
WatchDispatch ==
    (nops' = nops + 1 /\ ~crashed' /\ Notifies(last')) =>
        LET c == accs'[last'.acc]
            watch == {g \in last'.spawned : g.kind = "watch"}
        IN /\ \A k \in WatchKeys :
                 \A cb \in Range(c.watchCallbacks[k]) :
                     /\ Cardinality({g \in watch : g.cb = cb}) = 1
                     /\ \A g \in watch :
                            g.cb = cb => g.key = k /\ g.val = getValue(heap', c.data, k)
           /\ \A g \in watch : \E k \in WatchKeys : g.cb \in Range(c.watchCallbacks[k])

\* C29: each Set(j, v) dispatches, exactly once, every watch callback
\* registered under any key k, not only k = j and also when the value at k did
\* not change, passing k and the value found at k right after that Set; Reload
\* and an accepted watch-driven update dispatch the watch callbacks in the
\* same way.
C29_EveryWatchCallbackOncePerSet == [][WatchDispatch]_vars

\* a Set of b.b has returned and started the callback registered under a,
\* which the Set left as the load before had made it
C29_Witness ==
    /\ last.op = "Set"
    /\ last.path = <<"b", "b">>
    /\ nops = 3
    /\ \E g \in last.spawned :
          /\ g.kind = "watch"
          /\ g.key = <<"a">>
          /\ IsMap(heap, g.val)
          /\ g.val = getValue(heap, accs[last.acc].data, <<"a">>)

-----------------------------------------------------------------------------
(* Claims about what Set leaves alone *)

\* q lies off the line of p: it is neither a prefix of p nor an extension
OffLine(p, q) == ~IsPrefix(q, p) /\ ~IsPrefix(p, q)

\* a step that is a Set(p, v) on an accessor whose tree is acyclic before and
\* after: Get(q) returns the same for every q off the line of p, and the
\* callbacks registered are the same
SetFrame ==
    (last'.op = "Set" /\ nops' = nops + 1 /\ ~crashed') =>
        LET i == last'.acc
        IN /\ (Acyclic(heap, accs[i].data) /\ Acyclic(heap', accs'[i].data)) =>
                  \A q \in Paths :
                      OffLine(last'.path, q) =>
                          Abs(heap', getValue(heap', accs'[i].data, q))
                              = Abs(heap, getValue(heap, accs[i].data, q))
           /\ accs'[i].watchCallbacks = accs[i].watchCallbacks
           /\ accs'[i].changeCallbacks = accs[i].changeCallbacks

\* C30: Set(p, v) changes nothing outside p's own line: for every path q that
\* is neither a prefix of p nor an extension of p, Get(q) is the same before
\* and after the Set, and the registered watch and change callbacks are
\* unchanged.
C30_SetChangesOnlyItsLine == [][SetFrame]_vars

====
